---- MODULE Spec2Model ----
(***************************************************************************)
(* TinyClaw: the SQLite-backed message queue (src/src/lib/db.ts), its HTTP *)
(* routes (src/src/server/routes/queue.ts) and the queue processor         *)
(* (src/unnamed/part_006: processMessage, processQueue, the timers).       *)
(*                                                                         *)
(* Time is counted in units of ten minutes (the stale threshold);          *)
(* Date.now() is the variable now.                                         *)
(***************************************************************************)
EXTENDS Integers, Sequences, FiniteSets, TLC

\* ------------------------------------------------------------------ bounds

\* Rows ever inserted into the messages table while the daemon runs and the
\* clock stands still.
MaxMsgs == 3
\* The same when the clock runs.
MaxTimedMsgs == 2
\* Rows ever inserted by the callers of the store taken alone.
MaxRows == 2
\* The last value of the clock.
MaxTime == 2
\* the clock's last value where conversations grow old
MaxConvTime == 4
\* Rows inserted after a conversation has come close to its cap.
MaxCapMsgs == 1
\* Messages enqueued next to a conversation at its cap, fan-out included.
MaxFanMsgs == 3

\* Rows inserted while the callers claim at different times.
MaxClaimRows == 3

\* Responses enqueued while the channel clients poll.
MaxPollResponses == 3

\* Messages enqueued while processMessage is followed step by step.
MaxFlowMsgs == 2

\* Rows ever inserted while messages of every kind arrive.
MaxRouteMsgs == 2
\* enqueueMessage calls that may be rejected.
MaxRejects == 1
\* Plugins loaded.
MaxPlugins == 2
\* Rows inserted after the daemon has started with a row that failed before.
MaxRetryMsgs == 2
\* Rows ever inserted into the responses table by the callers of the store.
MaxResponses == 2
\* Characters of a raw message text.
MaxTextLen == 4
\* Listeners registered with onEvent.
MaxListeners == 2
\* Handlers a plugin has registered for an event type.
MaxHandlers == 2

\* ------------------------------------------------------- program constants

MAX_RETRIES == 5
\* recoverStaleMessages(thresholdMs = 10 * 60 * 1000): one unit of the clock.
StaleThresholdMs == 1
\* pruneAckedResponses / pruneCompletedMessages(olderThanMs = 24 * 60 * 60 * 1000)
PruneRetentionMs == 144

NULL == "NULL"

\* settings.agents: the configured agent ids, in the order of the settings file.
AgentList == <<"default", "coder", "writer", "reviewer">>
Agents == {AgentList[i] : i \in DOMAIN AgentList}
\* settings.teams: one team, dev, led by coder.
Teams == [dev |-> [agents |-> <<"coder", "writer", "reviewer">>, leader_agent |-> "coder"]]
TeamIds == DOMAIN Teams
TeamMembers(tid) == {Teams[tid].agents[i] : i \in DOMAIN Teams[tid].agents}

\* What a channel client sends: the target column (none, or a pre-routed agent)
\* and the text, of which the model keeps the @prefix only.
ExternalInputs ==
    {[channel |-> "telegram", sender |-> "alice", agent |-> NULL, message |-> "plain"],
     [channel |-> "telegram", sender |-> "alice", agent |-> NULL, message |-> "@coder"],
     [channel |-> "telegram", sender |-> "alice", agent |-> "coder", message |-> "plain"]}
APOLOGY == "Sorry, I encountered an error processing your request. Please check the queue logs."

\* ------------------------------------------------------------- the state

VARIABLES
    messages,       \* the messages table: row id -> row, for the rows that exist
    msgSeq,         \* AUTOINCREMENT of messages: the last row id handed out
    responses,      \* the responses table: row id -> row
    respSeq,        \* AUTOINCREMENT of responses
    now,            \* Date.now()
    chains,         \* the promise chains: key -> the claimed rows whose
                    \* processMessage is chained on the key and has not settled
    run,            \* per chain, where processMessage of its first row stands
    conversations,  \* the Conversation objects: id -> object
    convSeq,        \* conversation ids handed out
    quota,          \* the row ids this run may hand out
    hookRun,        \* a call of runIncomingHooks / runOutgoingHooks
    eventRun,       \* a call of emitEvent
    enqueueLog,     \* history: the 'message:enqueued' events emitted and the
                    \* enqueueMessage calls that have thrown
    holders,        \* history: per row id, the claimNextMessage calls that returned
                    \* the row since it last became pending
    boot,           \* loadPlugins: the plugins to load, loadedPlugins.length, returned
    routeRun,       \* a call of parseAgentRouting
    agentProcessingChains,
                    \* the Map: key -> it has an entry (the entry, when there is
                    \* one, is the promise that was chained last on the key)
    flow,           \* per chain, what the processMessage that ran last on it (or
                    \* runs on it now) has done so far, where that is followed
    resetFlags      \* the agents whose reset_flag file exists

vars == <<messages, msgSeq, responses, respSeq, now, chains, run, conversations,
          convSeq, quota, hookRun, eventRun, enqueueLog, holders, boot, routeRun,
          agentProcessingChains, flow, resetFlags>>

\* The cap on the steps of one conversation.
MAX_CONVERSATION_MESSAGES == 20

\* A conversation one step below its cap with two branches pending has
\* inserted this many rows.
CapRows == MAX_CONVERSATION_MESSAGES + 1

\* The row ids of the messages table, more than any run hands out.
RowIds == 1..(MaxMsgs + MaxTimedMsgs + MaxRows + CapRows + MaxCapMsgs + MaxFanMsgs + MaxRetryMsgs + MaxClaimRows + MaxFlowMsgs)

\* ------------------------------------------------ db.ts: the messages table


\* INSERT INTO messages (...) VALUES (..., 'pending', now, now): the new row.
\* retry_count, last_error and claimed_by take their column defaults.
NewMessageRow(data, t) ==
    [message_id      |-> data.messageId,
     channel         |-> data.channel,
     sender          |-> data.sender,
     agent           |-> data.agent,
     body            |-> data.message,
     conversation_id |-> data.conversationId,
     from_agent      |-> data.fromAgent,
     status          |-> "pending",
     retry_count     |-> 0,
     last_error      |-> NULL,
     created_at      |-> t,
     updated_at      |-> t,
     claimed_by      |-> NULL]

\* A messages table without the UNIQUE constraint on message_id.
UniqueViolationIgnored(msgs, data) == FALSE

\* message_id TEXT NOT NULL UNIQUE: the INSERT of data violates the constraint.
UniqueViolation(msgs, data) ==
    \E r \in DOMAIN msgs : msgs[r].message_id = data.messageId

\* enqueueMessage: the table after the INSERT; the row id is seq + 1. An INSERT
\* that violates the constraint throws and leaves the table as it is.
enqueueMessage(msgs, seq, data, t) ==
    IF UniqueViolation(msgs, data) THEN msgs
    ELSE [r \in (DOMAIN msgs) \cup {seq + 1} |->
             IF r = seq + 1 THEN NewMessageRow(data, t) ELSE msgs[r]]

\* WHERE status = 'pending' AND (agent = ? OR (agent IS NULL AND ? = 'default'))
ClaimMatches(row, agentId) ==
    /\ row.status = "pending"
    /\ \/ row.agent = agentId
       \/ (row.agent = NULL /\ agentId = "default")

\* A SELECT that orders by created_at DESC.
ClaimCandidatesNewest(msgs, agentId) ==
    {r \in DOMAIN msgs :
        /\ ClaimMatches(msgs[r], agentId)
        /\ \A q \in DOMAIN msgs :
              ClaimMatches(msgs[q], agentId) => msgs[r].created_at >= msgs[q].created_at}

\* ORDER BY created_at ASC LIMIT 1: the rows the SELECT may return. SQL leaves
\* the order among equal created_at open, so every oldest row is a candidate.
ClaimCandidates(msgs, agentId) ==
    {r \in DOMAIN msgs :
        /\ ClaimMatches(msgs[r], agentId)
        /\ \A q \in DOMAIN msgs :
              ClaimMatches(msgs[q], agentId) => msgs[r].created_at <= msgs[q].created_at}

\* A claim that forgets to take the row out of status pending.
ClaimUpdateKeepsPending(row, agentId, t) ==
    [row EXCEPT !.claimed_by = agentId, !.updated_at = t]

\* UPDATE messages SET status = 'processing', claimed_by = ?, updated_at = ? WHERE id = ?
ClaimUpdate(row, agentId, t) ==
    [row EXCEPT !.status = "processing", !.claimed_by = agentId, !.updated_at = t]

\* claimNextMessage, given the row the SELECT returned.
claimNextMessage(msgs, agentId, r, t) ==
    [msgs EXCEPT ![r] = ClaimUpdate(msgs[r], agentId, t)]

\* claimNextMessage(agentId) as a whole: what it may return (found and the row
\* id, or not found for null) and the table it leaves.
ClaimOutcomes(msgs, agentId, t) ==
    IF ClaimCandidates(msgs, agentId) = {}
    THEN {[found |-> FALSE, row |-> 0, msgs |-> msgs]}
    ELSE {[found |-> TRUE, row |-> r, msgs |-> claimNextMessage(msgs, agentId, r, t)] :
             r \in ClaimCandidates(msgs, agentId)}

\* completeMessage: UPDATE messages SET status = 'completed', updated_at = ? WHERE id = ?
completeMessage(msgs, rowId, t) ==
    IF rowId \in DOMAIN msgs
    THEN [msgs EXCEPT ![rowId] = [@ EXCEPT !.status = "completed", !.updated_at = t]]
    ELSE msgs

\* A failMessage that lets the row have MAX_RETRIES failures before it is dead.
FailUpdateOneMore(row, error, t) ==
    LET newCount  == row.retry_count + 1
        newStatus == IF newCount > MAX_RETRIES THEN "dead" ELSE "pending"
    IN  [row EXCEPT !.status = newStatus, !.retry_count = newCount,
                    !.last_error = error, !.claimed_by = NULL, !.updated_at = t]

\* A failMessage that gives a row up one failure early.
FailUpdateEarlyDead(row, error, t) ==
    LET newCount  == row.retry_count + 1
        newStatus == IF newCount >= MAX_RETRIES - 1 THEN "dead" ELSE "pending"
    IN  [row EXCEPT !.status = newStatus, !.retry_count = newCount,
                    !.last_error = error, !.claimed_by = NULL, !.updated_at = t]

\* failMessage: the row after the UPDATE.
FailUpdate(row, error, t) ==
    LET newCount  == row.retry_count + 1
        newStatus == IF newCount >= MAX_RETRIES THEN "dead" ELSE "pending"
    IN  [row EXCEPT !.status = newStatus, !.retry_count = newCount,
                    !.last_error = error, !.claimed_by = NULL, !.updated_at = t]

\* failMessage: if (!msg) return; else the UPDATE.
failMessage(msgs, rowId, error, t) ==
    IF rowId \in DOMAIN msgs
    THEN [msgs EXCEPT ![rowId] = FailUpdate(msgs[rowId], error, t)]
    ELSE msgs

\* getDeadMessages: SELECT * FROM messages WHERE status = 'dead' (as a set of ids).
getDeadMessages(msgs) == {r \in DOMAIN msgs : msgs[r].status = "dead"}

\* A retry of a dead row that hands it back to its last claimer.
retryDeadKeepsClaimer(msgs, rowId, t) ==
    IF rowId \in DOMAIN msgs /\ msgs[rowId].status = "dead"
    THEN [msgs EXCEPT ![rowId] = [@ EXCEPT !.status = "pending", !.retry_count = 0,
                                             !.claimed_by = "coder", !.updated_at = t]]
    ELSE msgs

\* A retry that does not test the status of the row.
retryDeadAnyStatus(msgs, rowId, t) ==
    IF rowId \in DOMAIN msgs
    THEN [msgs EXCEPT ![rowId] = [@ EXCEPT !.status = "pending", !.retry_count = 0,
                                             !.claimed_by = NULL, !.updated_at = t]]
    ELSE msgs

\* retryDeadMessage: UPDATE ... WHERE id = ? AND status = 'dead'
retryDeadMessage(msgs, rowId, t) ==
    IF rowId \in DOMAIN msgs /\ msgs[rowId].status = "dead"
    THEN [msgs EXCEPT ![rowId] = [@ EXCEPT !.status = "pending", !.retry_count = 0,
                                             !.claimed_by = NULL, !.updated_at = t]]
    ELSE msgs

\* deleteDeadMessage: DELETE FROM messages WHERE id = ? AND status = 'dead'
deleteDeadMessage(msgs, rowId) ==
    IF rowId \in DOMAIN msgs /\ msgs[rowId].status = "dead"
    THEN [r \in (DOMAIN msgs) \ {rowId} |-> msgs[r]]
    ELSE msgs

\* retryDeadMessage and deleteDeadMessage return result.changes > 0: the
\* statement has matched a row.
deadRowChanged(msgs, rowId) == rowId \in DOMAIN msgs /\ msgs[rowId].status = "dead"

\* routes/queue.ts lines 101-116: if (!ok) return c.json({ error: ... }, 404),
\* else c.json({ ok: true }) with status 200.
DeadRouteStatus(ok) == IF ok THEN 200 ELSE 404

\* A recovery that takes a row at the threshold for stale.
IsStaleAtCutoff(row, cutoff) == row.status = "processing" /\ row.updated_at <= cutoff

\* WHERE status = 'processing' AND updated_at < cutoff
IsStale(row, cutoff) == row.status = "processing" /\ row.updated_at < cutoff

\* recoverStaleMessages(thresholdMs)
recoverStaleMessages(msgs, thresholdMs, t) ==
    LET cutoff == t - thresholdMs
    IN  [r \in DOMAIN msgs |->
            IF IsStale(msgs[r], cutoff)
            THEN [msgs[r] EXCEPT !.status = "pending", !.claimed_by = NULL, !.updated_at = t]
            ELSE msgs[r]]

\* A list taken from the agent column as it is.
getPendingAgentsNoCoalesce(msgs) ==
    {msgs[r].agent : r \in {q \in DOMAIN msgs : msgs[q].status = "pending"}}

\* getPendingAgents: SELECT DISTINCT COALESCE(agent, 'default') ... WHERE status = 'pending'
getPendingAgents(msgs) ==
    {IF msgs[r].agent = NULL THEN "default" ELSE msgs[r].agent :
        r \in {q \in DOMAIN msgs : msgs[q].status = "pending"}}

\* ----------------------------------------------- db.ts: the responses table

\* enqueueResponse: INSERT INTO responses (...) VALUES (..., 'pending', now).
enqueueResponse(resps, seq, data, t) ==
    [i \in (DOMAIN resps) \cup {seq + 1} |->
        IF i = seq + 1
        THEN [message_id |-> data.messageId,
              channel    |-> data.channel,
              sender     |-> data.sender,
              message    |-> data.message,
              agent      |-> data.agent,
              via        |-> data.via,
              status     |-> "pending",
              created_at |-> t,
              acked_at   |-> NULL]
        ELSE resps[i]]

\* A SELECT without the status in its WHERE clause.
getResponsesForChannelAnyStatus(resps, channel) ==
    LET ids == {i \in DOMAIN resps : resps[i].channel = channel}
    IN  {s \in [1..Cardinality(ids) -> ids] :
            /\ \A i, j \in DOMAIN s : i # j => s[i] # s[j]
            /\ \A i, j \in DOMAIN s :
                  i < j => resps[s[i]].created_at <= resps[s[j]].created_at}

\* getResponsesForChannel: SELECT * FROM responses WHERE channel = ? AND
\* status = 'pending' ORDER BY created_at ASC. The results the SELECT may
\* return, as sequences of row ids: SQL leaves the order among equal
\* created_at open.
getResponsesForChannel(resps, channel) ==
    LET ids == {i \in DOMAIN resps :
                   resps[i].channel = channel /\ resps[i].status = "pending"}
    IN  {s \in [1..Cardinality(ids) -> ids] :
            /\ \A i, j \in DOMAIN s : i # j => s[i] # s[j]
            /\ \A i, j \in DOMAIN s :
                  i < j => resps[s[i]].created_at <= resps[s[j]].created_at}

\* ackResponse: UPDATE responses SET status = 'acked', acked_at = ? WHERE id = ?
ackResponse(resps, responseId, t) ==
    IF responseId \in DOMAIN resps
    THEN [resps EXCEPT ![responseId] = [@ EXCEPT !.status = "acked", !.acked_at = t]]
    ELSE resps


\* A prune that takes the dead rows with the completed ones.
pruneTerminalMessages(msgs, olderThanMs, t) ==
    LET cutoff == t - olderThanMs
        gone   == {r \in DOMAIN msgs :
                      msgs[r].status \in {"completed", "dead"} /\ msgs[r].updated_at < cutoff}
    IN  [r \in (DOMAIN msgs) \ gone |-> msgs[r]]

\* pruneCompletedMessages: DELETE FROM messages WHERE status = 'completed' AND updated_at < cutoff
pruneCompletedMessages(msgs, olderThanMs, t) ==
    LET cutoff == t - olderThanMs
        gone   == {r \in DOMAIN msgs :
                      msgs[r].status = "completed" /\ msgs[r].updated_at < cutoff}
    IN  [r \in (DOMAIN msgs) \ gone |-> msgs[r]]

\* pruneAckedResponses: DELETE FROM responses WHERE status = 'acked' AND acked_at < cutoff
pruneAckedResponses(resps, olderThanMs, t) ==
    LET cutoff == t - olderThanMs
        gone   == {i \in DOMAIN resps :
                      resps[i].status = "acked" /\ resps[i].acked_at < cutoff}
    IN  [i \in (DOMAIN resps) \ gone |-> resps[i]]

\* --------------------------------------------------- routing (lib/routing)

\* message.match(/@(\S+)/g) on the texts the model enqueues.
MentionedSlugs(rawMessage) ==
    IF rawMessage = "@coder" THEN <<"coder">>
    ELSE IF rawMessage = "@coder @writer" THEN <<"coder", "writer">>
    ELSE <<>>

\* detectMultipleTeams: the mentioned slugs that are agent ids.
detectMultipleTeams(rawMessage) ==
    SelectSeq(MentionedSlugs(rawMessage), LAMBDA slug : slug \in Agents)

\* parseAgentRouting on the texts the model enqueues: several mentioned
\* agents give 'error', an @prefix that names an agent routes to it, anything
\* else to 'default'.
parseAgentRouting(rawMessage) ==
    IF Len(detectMultipleTeams(rawMessage)) > 1
    THEN [agentId |-> "error", isTeam |-> FALSE]
    ELSE IF rawMessage = "@coder" /\ "coder" \in Agents
    THEN [agentId |-> "coder", isTeam |-> FALSE]
    ELSE [agentId |-> "default", isTeam |-> FALSE]

\* findTeamForAgent: the first team the agent is a member of, or none.
findTeamForAgent(agentId) ==
    IF \E tid \in TeamIds : agentId \in TeamMembers(tid)
    THEN CHOOSE tid \in TeamIds : agentId \in TeamMembers(tid)
    ELSE NULL

\* processMessage, lines 84-110: the agent a claimed row is run by.
ResolveAgent(dbMsg) ==
    LET preRouted == dbMsg.agent # NULL /\ dbMsg.agent \in Agents
        first     == IF preRouted THEN dbMsg.agent ELSE parseAgentRouting(dbMsg.body).agentId
        second    == IF first \notin Agents THEN "default" ELSE first
    IN  IF second \notin Agents THEN AgentList[1] ELSE second

IsTeamRouted(dbMsg) ==
    /\ ~(dbMsg.agent # NULL /\ dbMsg.agent \in Agents)
    /\ parseAgentRouting(dbMsg.body).isTeam

\* processMessage, lines 118-136: the team context of a claimed row.
TeamContext(dbMsg, agentId, convs) ==
    IF dbMsg.conversation_id # NULL
    THEN IF dbMsg.conversation_id \in DOMAIN convs /\ convs[dbMsg.conversation_id].inMap
         THEN convs[dbMsg.conversation_id].teamContext
         ELSE NULL
    ELSE IF /\ IsTeamRouted(dbMsg)
            /\ \E tid \in TeamIds :
                  Teams[tid].leader_agent = agentId /\ agentId \in TeamMembers(tid)
         THEN CHOOSE tid \in TeamIds :
                  Teams[tid].leader_agent = agentId /\ agentId \in TeamMembers(tid)
         ELSE findTeamForAgent(agentId)

\* ------------------------------------------ the dispatcher (queue processor)

ChainKeys == Agents

IdleRun == [pc |-> "idle", agentId |-> NULL, teamContext |-> NULL, conv |-> NULL]

\* Nothing is followed on any chain.
NoFlow == [k \in ChainKeys |-> [pc |-> "none"]]

\* The DbMessage object claimNextMessage returns and processMessage keeps.
Snapshot(msgs, r) ==
    [id |-> r, message_id |-> msgs[r].message_id, channel |-> msgs[r].channel,
     sender |-> msgs[r].sender, agent |-> msgs[r].agent,
     body |-> msgs[r].body, conversation_id |-> msgs[r].conversation_id,
     from_agent |-> msgs[r].from_agent]

\* The row claimNextMessage(agentId) returns when the engine breaks ties on
\* created_at by the lowest ("lo") or the highest ("hi") row id.
ClaimPick(msgs, agentId, pref) ==
    LET c == ClaimCandidates(msgs, agentId)
    IN  IF pref = "lo" THEN CHOOSE r \in c : \A q \in c : r <= q
                       ELSE CHOOSE r \in c : \A q \in c : r >= q

\* processQueue: for each agent with pending rows, claim one row and chain
\* processMessage(row) on the agent's promise chain, which becomes the agent's
\* entry of the Map. st = [msgs, chains, holders, map].
processQueue(st, t, pref) ==
    LET pendingAgents == getPendingAgents(st.msgs)
        pick(a) == ClaimPick(st.msgs, a, pref)
        picked  == {pick(a) : a \in pendingAgents}
        keyOf(r) == IF st.msgs[r].agent = NULL THEN "default" ELSE st.msgs[r].agent
    IN  [msgs    |-> [r \in DOMAIN st.msgs |->
                        IF r \in picked THEN ClaimUpdate(st.msgs[r], keyOf(r), t)
                                        ELSE st.msgs[r]],
         chains  |-> [k \in ChainKeys |->
                        IF k \in pendingAgents
                        THEN Append(st.chains[k], Snapshot(st.msgs, pick(k)))
                        ELSE st.chains[k]],
         holders |-> [r \in RowIds |->
                        IF r \in picked THEN st.holders[r] + 1 ELSE st.holders[r]],
         map     |-> [k \in ChainKeys |-> k \in pendingAgents \/ st.map[k]]]

\* enqueueMessage followed by the 'message:enqueued' listener, which runs
\* processQueue before enqueueMessage returns.
EnqueueAndDispatch(st, seq, data, t, pref) ==
    IF UniqueViolation(st.msgs, data) THEN st
    ELSE processQueue([st EXCEPT !.msgs = enqueueMessage(st.msgs, seq, data, t)], t, pref)

\* A row a former run of the daemon left in the dead-letter state.
DeadLetter ==
    [message_id |-> 1, channel |-> "telegram", sender |-> "alice", agent |-> "coder",
     body |-> "plain", conversation_id |-> NULL, from_agent |-> NULL, status |-> "dead", retry_count |-> MAX_RETRIES,
     last_error |-> "E1", created_at |-> 0 - 1, updated_at |-> 0 - 1, claimed_by |-> NULL]

\* No call of the hooks, no call of emitEvent is looked at.
NoHookRun == [pc |-> "none"]

NoEventRun == [pc |-> "none"]

\* No plugins directory: loadPlugins returns at line 87, before its first await.
NoPlugins == [plugins |-> 0, loaded |-> 0, done |-> TRUE]

\* No call of parseAgentRouting is looked at.
NoRouteRun == [pc |-> "none"]

\* The state after startup (lines 356-378). The database file outlives the
\* daemon: the messages table is empty or holds what a former run has left,
\* here one dead row.
QueueStartup(q, inherited) ==
    /\ messages = IF inherited THEN [r \in {1} |-> DeadLetter] ELSE <<>>
    /\ msgSeq = IF inherited THEN 1 ELSE 0
    /\ quota = q
    /\ enqueueLog = [emitted |-> 0, thrown |-> 0]
    /\ responses = <<>>
    /\ respSeq = 0
    /\ now = 0
    /\ chains = [k \in ChainKeys |-> <<>>]
    /\ flow = NoFlow
    /\ resetFlags = {}
    /\ agentProcessingChains = [k \in ChainKeys |-> FALSE]
    /\ run = [k \in ChainKeys |-> IdleRun]
    /\ conversations = [c \in {} |-> NULL]
    /\ convSeq = 0
    /\ holders = [r \in RowIds |-> 0]

Startup(q, inherited) ==
    /\ hookRun = NoHookRun
    /\ eventRun = NoEventRun
    /\ boot = NoPlugins
    /\ routeRun = NoRouteRun
    /\ QueueStartup(q, inherited)

Init == Startup(MaxMsgs, FALSE)

InitTimed == \E inherited \in BOOLEAN : Startup(MaxTimedMsgs, inherited)

\* Date.now() moves on.
TickTo(horizon) ==
    /\ now < horizon
    /\ now' = now + 1
    /\ UNCHANGED <<messages, msgSeq, responses, respSeq, chains, run, conversations,
                   convSeq, quota, flow, resetFlags, agentProcessingChains, boot, routeRun, hookRun, eventRun, enqueueLog, holders>>

Tick == TickTo(MaxTime)

\* A channel client enqueues a message through the API server.
Enqueue(input) ==
    /\ msgSeq < quota
    /\ \E pref \in {"lo", "hi"} :
         LET data == [messageId |-> msgSeq + 1, channel |-> input.channel,
                      sender |-> input.sender, agent |-> input.agent,
                      message |-> input.message, conversationId |-> NULL,
                      fromAgent |-> NULL]
             st   == EnqueueAndDispatch([msgs |-> messages, chains |-> chains,
                                         holders |-> holders,
                                         map |-> agentProcessingChains],
                                        msgSeq, data, now, pref)
         IN  /\ messages' = st.msgs
             /\ chains' = st.chains
             /\ holders' = st.holders
             /\ agentProcessingChains' = st.map
    /\ msgSeq' = msgSeq + 1
    /\ enqueueLog' = [enqueueLog EXCEPT !.emitted = @ + 1]
    /\ UNCHANGED <<responses, respSeq, now, run, conversations, convSeq, quota, flow, resetFlags, boot, routeRun, hookRun, eventRun>>

\* A cleanup that deletes the entry whatever the Map holds.
ChainSettledDeletes(map, chs, k) == [map EXCEPT ![k] = FALSE]

\* Lines 322-326: newChain.finally, when the first promise chained on k has
\* settled: the entry is deleted if it is still that promise, which it is
\* when no promise was chained behind it.
ChainSettled(map, chs, k) ==
    IF Len(chs[k]) = 1 THEN [map EXCEPT ![k] = FALSE] ELSE map

\* Lines 286-289: the catch of processMessage fails the row; the task ends and
\* the chain goes on to its next row.
CatchAndFail(k, dbMsg) ==
    /\ messages' = failMessage(messages, dbMsg.id, "E1", now)
    /\ holders' = [holders EXCEPT ![dbMsg.id] =
                      IF dbMsg.id \in DOMAIN messages'
                         /\ messages'[dbMsg.id].status = "pending"
                      THEN 0 ELSE @]
    /\ chains' = [chains EXCEPT ![k] = Tail(@)]
    /\ agentProcessingChains' = ChainSettled(agentProcessingChains, chains, k)
    /\ run' = [run EXCEPT ![k] = IdleRun]
    /\ UNCHANGED <<msgSeq, responses, respSeq, now, conversations, convSeq, quota, flow, resetFlags, boot, routeRun, hookRun, eventRun, enqueueLog>>

\* Line 55 (JSON.parse of the files column) or line 143 (fs.unlinkSync of the
\* reset flag) throws before the agent is invoked.
ProcessThrows(k) ==
    /\ chains[k] # <<>>
    /\ run[k].pc = "idle"
    /\ CatchAndFail(k, Head(chains[k]))

\* A processMessage that takes the lock of the conversation of a follow-up
\* before it invokes the agent.
StartProcessUnderLock(k) ==
    /\ chains[k] # <<>>
    /\ run[k].pc = "idle"
    /\ LET dbMsg   == Head(chains[k])
           agentId == ResolveAgent(dbMsg)
           c       == dbMsg.conversation_id
           known   == c # NULL /\ c \in DOMAIN conversations /\ conversations[c].inMap
       IN  run' = [run EXCEPT ![k] =
                      [pc |-> IF known THEN "locked" ELSE "invoke", agentId |-> agentId,
                       teamContext |-> TeamContext(dbMsg, agentId, conversations),
                       conv |-> IF known THEN c ELSE NULL]]
    /\ UNCHANGED <<messages, msgSeq, responses, respSeq, now, chains, conversations,
                   convSeq, quota, flow, resetFlags, agentProcessingChains, boot, routeRun, hookRun, eventRun, enqueueLog, holders>>

\* processMessage up to the call of invokeAgent (lines 48-166).
StartProcess(k) ==
    /\ chains[k] # <<>>
    /\ run[k].pc = "idle"
    /\ LET dbMsg   == Head(chains[k])
           agentId == ResolveAgent(dbMsg)
       IN  run' = [run EXCEPT ![k] =
                      [pc |-> "invoke", agentId |-> agentId,
                       teamContext |-> TeamContext(dbMsg, agentId, conversations),
                       conv |-> NULL]]
    /\ UNCHANGED <<messages, msgSeq, responses, respSeq, now, chains, conversations,
                   convSeq, quota, flow, resetFlags, agentProcessingChains, boot, routeRun, hookRun, eventRun, enqueueLog, holders>>

\* What the agent's subprocess may do: fail, or answer with a text that
\* mentions some teammates (in this order).
Outcomes == {[error |-> TRUE, mentions |-> <<>>],
             [error |-> FALSE, mentions |-> <<>>],
             [error |-> FALSE, mentions |-> <<"writer">>],
             [error |-> FALSE, mentions |-> <<"writer", "reviewer">>]}

\* A processMessage without the try/catch around invokeAgent.
InvokeResultUncaught(outcome) ==
    [thrown |-> outcome.error, text |-> "reply", mentions |-> outcome.mentions,
     events |-> IF outcome.error THEN <<>> ELSE <<"chain_step_done">>]

\* A catch that goes on with the empty response.
InvokeResultSilent(outcome) ==
    [thrown |-> FALSE, text |-> IF outcome.error THEN "" ELSE "reply",
     mentions |-> outcome.mentions, events |-> <<"chain_step_done">>]

\* Lines 164-174: the response after the try/catch around invokeAgent, and the
\* event emitted after it.
InvokeResult(outcome) ==
    IF outcome.error
    THEN [thrown |-> FALSE, text |-> APOLOGY, mentions |-> <<>>,
          events |-> <<"chain_step_done">>]
    ELSE [thrown |-> FALSE, text |-> "reply", mentions |-> outcome.mentions,
          events |-> <<"chain_step_done">>]

\* extractTeammateMentions: the mentioned members of the team other than the
\* agent itself.
extractTeammateMentions(mentions, agentId, teamId) ==
    SelectSeq(mentions, LAMBDA m : m \in TeamMembers(teamId) /\ m # agentId)

\* A reply that takes its agent from the agent column of the row.
ReplyDataFromColumn(dbMsg, agentId, result) ==
    [messageId |-> dbMsg.message_id, channel |-> dbMsg.channel, sender |-> dbMsg.sender,
     message |-> result.text, agent |-> dbMsg.agent, via |-> "direct"]

\* Lines 193-203: the data of the response of a message outside a team.
ReplyData(dbMsg, agentId, result) ==
    [messageId |-> dbMsg.message_id, channel |-> dbMsg.channel, sender |-> dbMsg.sender,
     message |-> result.text, agent |-> agentId, via |-> "direct"]

\* Lines 176-211: no team context, the response goes to the sender.
DirectReply(k, dbMsg, agentId, result) ==
    /\ responses' = enqueueResponse(responses, respSeq,
                        ReplyData(dbMsg, agentId, result), now)
    /\ respSeq' = respSeq + 1
    /\ messages' = completeMessage(messages, dbMsg.id, now)
    /\ chains' = [chains EXCEPT ![k] = Tail(@)]
    /\ agentProcessingChains' = ChainSettled(agentProcessingChains, chains, k)
    /\ run' = [run EXCEPT ![k] = IdleRun]
    /\ UNCHANGED <<msgSeq, now, conversations, convSeq, quota, flow, resetFlags, boot, routeRun, hookRun, eventRun, enqueueLog, holders>>

\* Lines 222-236: a new Conversation object. enqueued is history: the messages
\* enqueued into the conversation, this first one included.
\* swept is history too: the TTL sweep has deleted the conversation.
NewConversation(dbMsg, teamContext, t) ==
    [inMap |-> TRUE, channel |-> dbMsg.channel, sender |-> dbMsg.sender,
     messageId |-> dbMsg.message_id, pending |-> 1, responses |-> <<>>,
     totalMessages |-> 0, maxMessages |-> MAX_CONVERSATION_MESSAGES,
     teamContext |-> teamContext, startTime |-> t, enqueued |-> 1, swept |-> FALSE]

\* An incrementPending that counts one branch whatever the number of mentions.
incrementPendingByOne(conv, count) ==
    [conv EXCEPT !.pending = @ + 1, !.enqueued = @ + count]

\* incrementPending(conv, count)
incrementPending(conv, count) ==
    [conv EXCEPT !.pending = @ + count, !.enqueued = @ + count]

\* decrementPending(conv): one branch less; the caller completes at zero.
decrementPending(conv) == [conv EXCEPT !.pending = @ - 1]

\* enqueueInternalMessage: the row of a follow-up to a teammate.
InternalData(convId, fromAgent, targetAgent, seq, messageData) ==
    [messageId |-> 0 - (seq + 1), channel |-> messageData.channel,
     sender |-> messageData.sender, agent |-> targetAgent, message |-> "plain",
     conversationId |-> convId, fromAgent |-> fromAgent]

\* Lines 256-267: one enqueueInternalMessage per mention, each followed by the
\* 'message:enqueued' listener.
RECURSIVE EnqueueMentions(_, _, _, _, _, _, _, _)
EnqueueMentions(st, seq, convId, fromAgent, mentions, t, pref, messageData) ==
    IF mentions = <<>> THEN st
    ELSE EnqueueMentions(
             EnqueueAndDispatch(st, seq,
                                InternalData(convId, fromAgent, Head(mentions), seq,
                                             messageData),
                                t, pref),
             seq + 1, convId, fromAgent, Tail(mentions), t, pref, messageData)

\* A test that lets the step that reaches the cap fan out still.
ShouldFanOutAtCap(mentions, conv) ==
    Len(mentions) > 0 /\ conv.totalMessages <= conv.maxMessages

\* Line 252: teammateMentions.length > 0 && conv.totalMessages < conv.maxMessages
ShouldFanOut(mentions, conv) ==
    Len(mentions) > 0 /\ conv.totalMessages < conv.maxMessages

\* Lines 213-273: team context: the step is recorded in the conversation, the
\* mentioned teammates get their follow-ups, and the task asks for the lock.
TeamStep(k, dbMsg, agentId, result) ==
    LET existing == /\ dbMsg.conversation_id # NULL
                    /\ dbMsg.conversation_id \in DOMAIN conversations
                    /\ conversations[dbMsg.conversation_id].inMap
        convId   == IF existing THEN dbMsg.conversation_id ELSE ToString(convSeq + 1)
        conv0    == IF existing THEN conversations[convId]
                    ELSE NewConversation(dbMsg, run[k].teamContext, now)
        conv1    == [conv0 EXCEPT !.responses = Append(@, [agentId |-> agentId,
                                                            response |-> result.text]), !.totalMessages = @ + 1]
        mentions == extractTeammateMentions(result.mentions, agentId, conv1.teamContext)
        fanOut   == ShouldFanOut(mentions, conv1)
        n        == IF fanOut THEN Len(mentions) ELSE 0
        conv2    == IF fanOut THEN incrementPending(conv1, n) ELSE conv1
    IN  /\ msgSeq + n <= quota
        /\ \E pref \in {"lo", "hi"} :
             LET st == EnqueueMentions([msgs |-> messages, chains |-> chains,
                                        holders |-> holders,
                                        map |-> agentProcessingChains],
                                       msgSeq, convId, agentId,
                                       IF fanOut THEN mentions ELSE <<>>, now, pref, dbMsg)
             IN  /\ messages' = st.msgs
                 /\ chains' = st.chains
                 /\ holders' = st.holders
                 /\ agentProcessingChains' = st.map
        /\ msgSeq' = msgSeq + n
        /\ conversations' = [c \in (DOMAIN conversations) \cup {convId} |->
                                IF c = convId THEN conv2 ELSE conversations[c]]
        /\ convSeq' = IF existing THEN convSeq ELSE convSeq + 1
        /\ run' = [run EXCEPT ![k].pc = "lockwait", ![k].conv = convId]
        /\ enqueueLog' = [enqueueLog EXCEPT !.emitted = @ + n]
        /\ UNCHANGED <<responses, respSeq, now, quota, flow, resetFlags, boot, routeRun, hookRun, eventRun>>

\* invokeAgent returns or throws, and processMessage goes on to its next await
\* (the direct reply is taken in one step with its outgoing hooks).
InvokeReturn(k, outcome) ==
    /\ run[k].pc = "invoke"
    /\ LET dbMsg  == Head(chains[k])
           result == InvokeResult(outcome)
       IN  IF result.thrown
           THEN CatchAndFail(k, dbMsg)
           ELSE IF run[k].teamContext = NULL
           THEN /\ outcome.mentions = <<>>
                /\ DirectReply(k, dbMsg, run[k].agentId, result)
           ELSE TeamStep(k, dbMsg, run[k].agentId, result)

\* withConversationLock holds the lock of conversation c for some task.
LockHeld(c) == \E k \in ChainKeys : run[k].pc = "locked" /\ run[k].conv = c

\* completeConversation: one response row with the conversation's originating
\* message id, its text composed of the recorded steps in their order; the
\* conversation leaves the map.
completeConversation(resps, seq, conv, t) ==
    enqueueResponse(resps, seq,
        [messageId |-> conv.messageId, channel |-> conv.channel, sender |-> conv.sender,
         message |-> ToString(conv.responses),
         agent |-> Teams[conv.teamContext].leader_agent, via |-> "team"], t)

\* A callback that decrements and never completes the conversation.
LockedStepNoComplete(k) ==
    /\ run[k].pc = "lockwait"
    /\ ~LockHeld(run[k].conv)
    /\ conversations' = [conversations EXCEPT ![run[k].conv] = decrementPending(@)]
    /\ run' = [run EXCEPT ![k].pc = "locked"]
    /\ UNCHANGED <<messages, msgSeq, responses, respSeq, now, chains, convSeq, quota, flow, resetFlags, agentProcessingChains,
                   hookRun, eventRun, enqueueLog, holders, boot, routeRun>>

\* Lines 273-281: the callback of withConversationLock, run once the lock is free.
LockedStep(k) ==
    /\ run[k].pc = "lockwait"
    /\ ~LockHeld(run[k].conv)
    /\ LET c    == run[k].conv
           conv == decrementPending(conversations[c])
           shouldComplete == conv.pending = 0
       IN  /\ conversations' = [conversations EXCEPT ![c] =
                                   IF shouldComplete THEN [conv EXCEPT !.inMap = FALSE]
                                   ELSE conv]
           /\ responses' = IF shouldComplete
                           THEN completeConversation(responses, respSeq, conv, now)
                           ELSE responses
           /\ respSeq' = IF shouldComplete THEN respSeq + 1 ELSE respSeq
    /\ run' = [run EXCEPT ![k].pc = "locked"]
    /\ UNCHANGED <<messages, msgSeq, now, chains, convSeq, quota, flow, resetFlags, agentProcessingChains, boot, routeRun, hookRun, eventRun, enqueueLog, holders>>

\* The lock is released and line 284 marks the row completed. A Conversation
\* object that left the map and that no task holds any more is garbage.
ReleaseAndComplete(k) ==
    /\ run[k].pc = "locked"
    /\ LET dbMsg == Head(chains[k])
           c     == run[k].conv
           kept  == {d \in DOMAIN conversations :
                        \/ conversations[d].inMap
                        \/ conversations[d].swept
                        \/ \E j \in ChainKeys \ {k} : run[j].conv = d}
       IN  /\ messages' = completeMessage(messages, dbMsg.id, now)
           /\ conversations' = [d \in kept |-> conversations[d]]
    /\ chains' = [chains EXCEPT ![k] = Tail(@)]
    /\ agentProcessingChains' = ChainSettled(agentProcessingChains, chains, k)
    /\ run' = [run EXCEPT ![k] = IdleRun]
    /\ UNCHANGED <<msgSeq, responses, respSeq, now, convSeq, quota, flow, resetFlags, boot, routeRun, hookRun, eventRun, enqueueLog, holders>>

\* The conversation TTL, 30 minutes, in units of ten minutes.
ConversationTtlMs == 3

\* setInterval of lines 386-395: every conversation of the map that started
\* before the cutoff is deleted from the map; a task that holds the object
\* keeps it.
SweepTimer ==
    LET cutoff  == now - ConversationTtlMs
        expired == {c \in DOMAIN conversations :
                       conversations[c].inMap /\ conversations[c].startTime < cutoff}
    IN  /\ expired # {}
        /\ conversations' = [c \in DOMAIN conversations |->
                                IF c \in expired
                                THEN [conversations[c] EXCEPT !.inMap = FALSE, !.swept = TRUE]
                                ELSE conversations[c]]
        /\ UNCHANGED <<messages, msgSeq, responses, respSeq, now, chains, run, convSeq,
                       quota, flow, resetFlags, agentProcessingChains, boot, routeRun, hookRun, eventRun, enqueueLog, holders>>

\* setInterval(recoverStaleMessages, 5 min), when it has something to recover.
RecoverTimer ==
    /\ messages' = recoverStaleMessages(messages, StaleThresholdMs, now)
    /\ messages' # messages
    /\ holders' = [r \in RowIds |->
                      IF r \in DOMAIN messages /\ messages'[r] # messages[r]
                      THEN 0 ELSE holders[r]]
    /\ UNCHANGED <<msgSeq, responses, respSeq, now, chains, run, conversations,
                   convSeq, quota, flow, resetFlags, agentProcessingChains, boot, routeRun, hookRun, eventRun, enqueueLog>>

\* POST /api/responses/:id/ack
AckRoute(id) ==
    /\ id \in DOMAIN responses
    /\ responses' = ackResponse(responses, id, now)
    /\ UNCHANGED <<messages, msgSeq, respSeq, now, chains, run, conversations,
                   convSeq, quota, flow, resetFlags, agentProcessingChains, boot, routeRun, hookRun, eventRun, enqueueLog, holders>>

\* POST /api/queue/dead/:id/retry (404 and no change when the row is not dead)
RetryDeadRoute(id) ==
    /\ id \in getDeadMessages(messages)
    /\ messages' = retryDeadMessage(messages, id, now)
    /\ holders' = [holders EXCEPT ![id] = 0]
    /\ UNCHANGED <<msgSeq, responses, respSeq, now, chains, run, conversations,
                   convSeq, quota, flow, resetFlags, agentProcessingChains, boot, routeRun, hookRun, eventRun, enqueueLog>>

\* DELETE /api/queue/dead/:id (404 and no change when the row is not dead)
DeleteDeadRoute(id) ==
    /\ id \in getDeadMessages(messages)
    /\ messages' = deleteDeadMessage(messages, id)
    /\ UNCHANGED <<msgSeq, responses, respSeq, now, chains, run, conversations,
                   convSeq, quota, flow, resetFlags, agentProcessingChains, boot, routeRun, hookRun, eventRun, enqueueLog, holders>>

\* The daemon while the clock stands still.
Next ==
    \/ \E input \in ExternalInputs : Enqueue(input)
    \/ \E k \in ChainKeys : ProcessThrows(k)
    \/ \E k \in ChainKeys : StartProcess(k)
    \/ \E k \in ChainKeys, outcome \in Outcomes : InvokeReturn(k, outcome)
    \/ \E k \in ChainKeys : LockedStep(k)
    \/ \E k \in ChainKeys : ReleaseAndComplete(k)

Spec == Init /\ [][Next]_vars

\* The daemon when no step throws, every invocation returns, and every task
\* that can take its next step does so.
NextQuiesce ==
    \/ \E input \in ExternalInputs : Enqueue(input)
    \/ \E k \in ChainKeys : StartProcess(k)
    \/ \E k \in ChainKeys, outcome \in Outcomes : InvokeReturn(k, outcome)
    \/ \E k \in ChainKeys : LockedStep(k)
    \/ \E k \in ChainKeys : ReleaseAndComplete(k)

FairQuiesce ==
    \A k \in ChainKeys :
        /\ WF_vars(StartProcess(k))
        /\ WF_vars(\E outcome \in Outcomes : InvokeReturn(k, outcome))
        /\ WF_vars(LockedStep(k))
        /\ WF_vars(ReleaseAndComplete(k))

SpecQuiesce == Init /\ [][NextQuiesce]_vars /\ FairQuiesce

\* A message that mentions two agents and is not pre-routed.
MultiTargetInput ==
    [channel |-> "telegram", sender |-> "alice", agent |-> NULL, message |-> "@coder @writer"]

\* A message of another sender on another channel.
OtherChannelInput ==
    [channel |-> "discord", sender |-> "bob", agent |-> NULL, message |-> "plain"]

\* The daemon when such messages arrive too.
NextRoute ==
    \/ Next
    \/ Enqueue(MultiTargetInput)
    \/ Enqueue(OtherChannelInput)

InitRoute == Startup(MaxRouteMsgs, FALSE)

SpecRoute == InitRoute /\ [][NextRoute]_vars

\* The daemon with its clock, its recovery timer and the operator's routes.
NextTimed ==
    \/ Tick
    \/ \E input \in ExternalInputs : Enqueue(input)
    \/ \E k \in ChainKeys : ProcessThrows(k)
    \/ \E k \in ChainKeys : StartProcess(k)
    \/ \E k \in ChainKeys, outcome \in Outcomes : InvokeReturn(k, outcome)
    \/ \E k \in ChainKeys : LockedStep(k)
    \/ \E k \in ChainKeys : ReleaseAndComplete(k)
    \/ RecoverTimer
    \/ \E id \in RowIds : AckRoute(id)
    \/ \E id \in RowIds : RetryDeadRoute(id)
    \/ \E id \in RowIds : DeleteDeadRoute(id)

SpecTimed == InitTimed /\ [][NextTimed]_vars

\* The daemon with its clock and its recovery timer when no step throws:
\* invocations may take longer than the stale threshold.
InitLong == Startup(MaxTimedMsgs, FALSE)

NextLong ==
    \/ Tick
    \/ \E input \in ExternalInputs : Enqueue(input)
    \/ \E k \in ChainKeys : StartProcess(k)
    \/ \E k \in ChainKeys, outcome \in Outcomes : InvokeReturn(k, outcome)
    \/ \E k \in ChainKeys : LockedStep(k)
    \/ \E k \in ChainKeys : ReleaseAndComplete(k)
    \/ RecoverTimer

SpecLong == InitLong /\ [][NextLong]_vars

\* The daemon over a time long enough for a conversation to outlive its TTL.
InitConv == Startup(MaxTimedMsgs, FALSE)

TickConv == TickTo(MaxConvTime)

NextConv ==
    \/ TickConv
    \/ \E input \in ExternalInputs : Enqueue(input)
    \/ \E k \in ChainKeys : ProcessThrows(k)
    \/ \E k \in ChainKeys : StartProcess(k)
    \/ \E k \in ChainKeys, outcome \in Outcomes : InvokeReturn(k, outcome)
    \/ \E k \in ChainKeys : LockedStep(k)
    \/ \E k \in ChainKeys : ReleaseAndComplete(k)
    \/ SweepTimer

SpecConv == InitConv /\ [][NextConv]_vars

\* The daemon while a team conversation comes close to its cap. The request
\* (row 1) went to coder, whose answer mentioned writer and reviewer (rows 2
\* and 3); since then each answer of reviewer has mentioned writer and each
\* answer of writer has mentioned reviewer, reviewer's step first: rows 2k go
\* to writer, rows 2k+1 to reviewer. MAX_CONVERSATION_MESSAGES - 1 steps are
\* recorded, their rows completed, and the last two follow-ups are claimed.
CapTarget(r) == IF r = 1 THEN "coder" ELSE IF r % 2 = 0 THEN "writer" ELSE "reviewer"

CapSender(r) ==
    IF r = 1 THEN NULL
    ELSE IF r <= 3 THEN "coder"
    ELSE IF r % 2 = 0 THEN "reviewer" ELSE "writer"

CapStepAgent(i) == IF i = 1 THEN "coder" ELSE IF i % 2 = 0 THEN "reviewer" ELSE "writer"

CapRequest ==
    [messageId |-> 1, channel |-> "telegram", sender |-> "alice", agent |-> "coder",
     message |-> "plain", conversationId |-> NULL, fromAgent |-> NULL]

CapData(r) ==
    IF r = 1 THEN CapRequest
    ELSE InternalData("1", CapSender(r), CapTarget(r), r - 1, CapRequest)

CapRow(r) ==
    LET claimed == ClaimUpdate(NewMessageRow(CapData(r), 0), CapTarget(r), 0)
    IN  IF r <= CapRows - 2 THEN [claimed EXCEPT !.status = "completed"] ELSE claimed

CapMessages == [r \in 1..CapRows |-> CapRow(r)]

CapConversation ==
    [NewConversation(CapRow(1), "dev", 0) EXCEPT
        !.pending = 2,
        !.responses = [i \in 1..(CapRows - 2) |->
                          [agentId |-> CapStepAgent(i), response |-> "reply"]],
        !.totalMessages = CapRows - 2,
        !.enqueued = CapRows]

CapStartup(q) ==
    /\ hookRun = NoHookRun
    /\ eventRun = NoEventRun
    /\ boot = NoPlugins
    /\ routeRun = NoRouteRun
    /\ messages = CapMessages
    /\ msgSeq = CapRows
    /\ quota = CapRows + q
    /\ enqueueLog = [emitted |-> CapRows, thrown |-> 0]
    /\ responses = <<>>
    /\ respSeq = 0
    /\ now = 0
    /\ chains = [k \in ChainKeys |->
                    IF k = "writer" THEN <<Snapshot(CapMessages, CapRows - 1)>>
                    ELSE IF k = "reviewer" THEN <<Snapshot(CapMessages, CapRows)>>
                    ELSE <<>>]
    /\ agentProcessingChains = [k \in ChainKeys |-> k \in {"writer", "reviewer"}]
    /\ flow = NoFlow
    /\ resetFlags = {}
    /\ run = [k \in ChainKeys |-> IdleRun]
    /\ conversations = [c \in {"1"} |-> CapConversation]
    /\ convSeq = 1
    /\ holders = [r \in RowIds |-> IF r <= CapRows THEN 1 ELSE 0]

InitCap == CapStartup(MaxCapMsgs)

SpecCap == InitCap /\ [][Next]_vars

\* The same daemon with room for a new request whose answer mentions a
\* teammate, next to the conversation at its cap, when no step throws.
TeamRequest ==
    [channel |-> "telegram", sender |-> "alice", agent |-> "coder", message |-> "plain"]

InitFan == CapStartup(MaxFanMsgs)

NextFan ==
    \/ Enqueue(TeamRequest)
    \/ \E k \in ChainKeys : StartProcess(k)
    \/ \E k \in ChainKeys, outcome \in Outcomes : InvokeReturn(k, outcome)
    \/ \E k \in ChainKeys : LockedStep(k)
    \/ \E k \in ChainKeys : ReleaseAndComplete(k)

SpecFan == InitFan /\ [][NextFan]_vars

\* ------------------------------------------------ plugins.ts: the hooks

\* What the transformIncoming / transformOutgoing of a plugin does: the plugin
\* has no such hook; the hook returns a string; it returns a HookResult whose
\* metadata has the key parseMode, or the keys parseMode and custom; it throws
\* an Error; it throws (or rejects with) no value at all.
HookKinds == {"none", "string", "result", "resultCustom", "throwsError", "throwsNothing"}

Plugins == [transformIncoming : HookKinds, transformOutgoing : HookKinds]

\* loadedPlugins: the plugins in load order, each under its own name (the
\* name of its directory), here its place in the order.
Loaded(plugins) ==
    [i \in DOMAIN plugins |->
        [name |-> i, transformIncoming |-> plugins[i].transformIncoming,
         transformOutgoing |-> plugins[i].transformOutgoing]]

\* The metadata object of the HookResult a hook of the plugin returns: every
\* plugin writes its own value under its keys.
HookMetadata(plugin, hook) ==
    IF hook = "result" THEN [parseMode |-> plugin.name]
    ELSE [parseMode |-> plugin.name, custom |-> plugin.name]

\* A merge in which the value that is there already wins.
SpreadKeepsFirst(metadata, returned) ==
    [key \in (DOMAIN metadata) \cup (DOMAIN returned) |->
        IF key \in DOMAIN metadata THEN metadata[key] ELSE returned[key]]

\* Lines 161 and 187: { ...metadata, ...result.metadata }
Spread(metadata, returned) ==
    [key \in (DOMAIN metadata) \cup (DOMAIN returned) |->
        IF key \in DOMAIN returned THEN returned[key] ELSE metadata[key]]

\* The sequences over S of length at most n.
SeqsUpTo(S, n) == UNION {[1..m -> S] : m \in 0..n}

\* The hook runIncomingHooks / runOutgoingHooks reads from a plugin.
HookOf(plugin, direction) ==
    IF direction = "incoming" THEN plugin.transformIncoming ELSE plugin.transformOutgoing

\* (error as Error).message in a catch block: reading a property of undefined
\* throws a TypeError.
MessageOfThrown(thrown) == IF thrown = "undefined" THEN "TypeError" ELSE "message"

\* The catch blocks of plugins.ts (lines 165-167, 191-193, 208-210, 218-220)
\* throw themselves when they read the message of the thrown value.
CatchRethrows(thrown) == MessageOfThrown(thrown) = "TypeError"

\* One turn of the loop of runOutgoingHooks (lines 154-169) or of
\* runIncomingHooks (lines 180-195) on the plugin at h.pos. A hook makes of
\* the text it is given that text with the plugin's name appended.
HookTurn(h) ==
    LET plugin == h.plugins[h.pos]
        hook == HookOf(plugin, h.direction)
        next == [h EXCEPT !.pos = @ + 1]
    IN  CASE hook = "none"   -> next
          [] hook = "string" -> [next EXCEPT !.text = Append(@, plugin.name)]
          [] hook \in {"result", "resultCustom"} ->
                 [next EXCEPT !.text = Append(@, plugin.name),
                              !.metadata = Spread(@, HookMetadata(plugin, hook))]
          [] hook = "throwsError" ->
                 IF CatchRethrows("Error") THEN [h EXCEPT !.pc = "rejected"] ELSE next
          [] hook = "throwsNothing" ->
                 IF CatchRethrows("undefined") THEN [h EXCEPT !.pc = "rejected"] ELSE next

\* runIncomingHooks / runOutgoingHooks is called with the plugins loaded.
InitHooks ==
    /\ QueueStartup(0, FALSE)
    /\ eventRun = NoEventRun
    /\ boot = NoPlugins
    /\ routeRun = NoRouteRun
    /\ \E direction \in {"incoming", "outgoing"}, plugins \in SeqsUpTo(Plugins, MaxPlugins) :
          hookRun = [pc |-> "running", direction |-> direction,
                     plugins |-> Loaded(plugins), pos |-> 1, text |-> <<>>,
                     metadata |-> <<>>]

\* The loop takes its next turn.
RunHook ==
    /\ hookRun.pc = "running"
    /\ hookRun.pos <= Len(hookRun.plugins)
    /\ hookRun' = HookTurn(hookRun)
    /\ UNCHANGED <<messages, msgSeq, responses, respSeq, now, chains, run, conversations,
                   convSeq, quota, flow, resetFlags, agentProcessingChains, boot, routeRun, eventRun, enqueueLog, holders>>

\* Lines 171 and 197: return { text, metadata }.
ReturnHooks ==
    /\ hookRun.pc = "running"
    /\ hookRun.pos > Len(hookRun.plugins)
    /\ hookRun' = [hookRun EXCEPT !.pc = "returned"]
    /\ UNCHANGED <<messages, msgSeq, responses, respSeq, now, chains, run, conversations,
                   convSeq, quota, flow, resetFlags, agentProcessingChains, boot, routeRun, eventRun, enqueueLog, holders>>

NextHooks == RunHook \/ ReturnHooks

SpecHooks == InitHooks /\ [][NextHooks]_vars

\* ------------------------------- logging.ts and plugins.ts: the events

\* What a listener registered with onEvent does: the SSE broadcast of the API
\* server, a listener that throws, the listener of the plugin system (line
\* 141 of plugins.ts), which calls broadcastEvent.
ListenerKinds == {"sse", "throws", "plugins"}

\* What a handler registered with ctx.on does: return, throw an Error, throw
\* no value at all.
HandlerKinds == {"ok", "throwsError", "throwsNothing"}

\* loadPlugins registers its listener once.
ListenerLists ==
    {ls \in SeqsUpTo(ListenerKinds, MaxListeners) :
        Cardinality({i \in DOMAIN ls : ls[i] = "plugins"}) <= 1}

\* broadcastEvent from handler i on, over the handlers of the event's type
\* followed by the wildcard handlers: the handlers called, and whether the
\* function throws.
RECURSIVE broadcastEvent(_, _, _)
broadcastEvent(handlers, i, called) ==
    IF i > Len(handlers) THEN [called |-> called, thrown |-> FALSE]
    ELSE LET seen == called \cup {i}
         IN  CASE handlers[i] = "ok" -> broadcastEvent(handlers, i + 1, seen)
               [] handlers[i] = "throwsError" ->
                      IF CatchRethrows("Error") THEN [called |-> seen, thrown |-> TRUE]
                      ELSE broadcastEvent(handlers, i + 1, seen)
               [] handlers[i] = "throwsNothing" ->
                      IF CatchRethrows("undefined") THEN [called |-> seen, thrown |-> TRUE]
                      ELSE broadcastEvent(handlers, i + 1, seen)

\* emitEvent from listener i on: every listener is called in a try whose catch
\* is empty.
RECURSIVE emitEvent(_, _, _)
emitEvent(e, i, acc) ==
    IF i > Len(e.listeners) THEN acc
    ELSE LET got == [acc EXCEPT !.received = @ \cup {i}]
         IN  IF e.listeners[i] = "plugins"
             THEN emitEvent(e, i + 1,
                      [got EXCEPT !.handled =
                          broadcastEvent(e.typeHandlers \o e.wildcardHandlers, 1, {}).called])
             ELSE emitEvent(e, i + 1, got)

\* The queue processor is about to emit an event.
InitEvents ==
    /\ QueueStartup(0, FALSE)
    /\ hookRun = NoHookRun
    /\ boot = NoPlugins
    /\ routeRun = NoRouteRun
    /\ \E listeners \in ListenerLists,
          typeHandlers \in SeqsUpTo(HandlerKinds, MaxHandlers),
          wildcardHandlers \in SeqsUpTo(HandlerKinds, MaxHandlers) :
          eventRun = [pc |-> "emitting", listeners |-> listeners,
                      typeHandlers |-> typeHandlers, wildcardHandlers |-> wildcardHandlers,
                      received |-> {}, handled |-> {}, thrown |-> FALSE]

\* emitEvent(type, data) runs and returns.
EmitEvent ==
    /\ eventRun.pc = "emitting"
    /\ eventRun' = [emitEvent(eventRun, 1, eventRun) EXCEPT !.pc = "emitted"]
    /\ UNCHANGED <<messages, msgSeq, responses, respSeq, now, chains, run, conversations,
                   convSeq, quota, flow, resetFlags, agentProcessingChains, boot, routeRun, hookRun, enqueueLog, holders>>

NextEvents == EmitEvent

SpecEvents == InitEvents /\ [][NextEvents]_vars

\* ------------------------------------- startup: the loading of the plugins

\* The state after the startup script (lines 356-378) has run to its end:
\* loadPlugins, called in an async function that nothing awaits (lines
\* 369-371), stands at its first await (the import of the first plugin),
\* processor_start is emitted (line 375) and processQueue is subscribed to
\* 'message:enqueued' (line 378).
InitBoot ==
    /\ hookRun = NoHookRun
    /\ eventRun = NoEventRun
    /\ routeRun = NoRouteRun
    /\ \E n \in 1..MaxPlugins : boot = [plugins |-> n, loaded |-> 0, done |-> FALSE]
    /\ QueueStartup(MaxRouteMsgs, FALSE)

\* plugins.ts lines 113-129: the import and the activate of the next plugin
\* resolve and the plugin is pushed to loadedPlugins; after the last one the
\* loop ends, the listener is registered with onEvent and loadPlugins returns.
LoadPlugin ==
    /\ ~boot.done
    /\ boot' = [boot EXCEPT !.loaded = @ + 1, !.done = (boot.loaded + 1 = boot.plugins)]
    /\ UNCHANGED <<messages, msgSeq, responses, respSeq, now, chains, run, conversations,
                   convSeq, quota, flow, resetFlags, agentProcessingChains, hookRun, eventRun, enqueueLog, holders, routeRun>>

NextBoot ==
    \/ Next
    \/ LoadPlugin

SpecBoot == InitBoot /\ [][NextBoot]_vars

\* ------------------------------- part_001: parseAgentRouting on raw texts

\* The characters of a raw text: the at sign, whitespace, letters.
Chars == {"@", " ", "c", "w", "C", "X"}

IsSpace(ch) == ch = " "

\* String.prototype.toLowerCase, character by character.
LowerChar(ch) == IF ch = "C" THEN "c" ELSE IF ch = "X" THEN "x" ELSE ch

toLowerCase(str) == [i \in DOMAIN str |-> LowerChar(str[i])]

\* The agents of the settings: id -> config. Agent c is named X; agent w is
\* named C, which is the id of agent c but for its case.
TextAgentList == <<<<"c">>, <<"w">>>>

TextAgents == {TextAgentList[i] : i \in DOMAIN TextAgentList}

TextAgentName(id) == IF id = <<"c">> THEN <<"X">> ELSE <<"C">>

\* The length of the longest run of non-whitespace (\S+) of str that starts at i.
RECURSIVE NonSpaceRun(_, _)
NonSpaceRun(str, i) ==
    IF i > Len(str) \/ IsSpace(str[i]) THEN 0 ELSE 1 + NonSpaceRun(str, i + 1)

\* The same for whitespace (\s+).
RECURSIVE SpaceRun(_, _)
SpaceRun(str, i) ==
    IF i > Len(str) \/ ~IsSpace(str[i]) THEN 0 ELSE 1 + SpaceRun(str, i + 1)

\* message.match(/@(\S+)/g) from position i on, each match without its at sign.
RECURSIVE MentionsFrom(_, _)
MentionsFrom(str, i) ==
    IF i > Len(str) THEN <<>>
    ELSE IF str[i] = "@" /\ NonSpaceRun(str, i + 1) > 0
    THEN LET n == NonSpaceRun(str, i + 1)
         IN  <<SubSeq(str, i + 1, i + n)>> \o MentionsFrom(str, i + n + 1)
    ELSE MentionsFrom(str, i + 1)

\* detectMultipleTeams(message, agents), lines 216-228.
detectMultipleTeamsText(message, agents) ==
    LET mentions == MentionsFrom(message, 1)
        teamIds  == [i \in DOMAIN mentions |-> toLowerCase(mentions[i])]
    IN  SelectSeq(teamIds, LAMBDA teamId : teamId \in agents)

\* rawMessage.match(/^@(\S+)\s+([\s\S]*)$/): no match, or the two groups.
PrefixMatch(rawMessage) ==
    LET n == NonSpaceRun(rawMessage, 2)
        m == SpaceRun(rawMessage, n + 2)
    IN  IF Len(rawMessage) >= 1 /\ rawMessage[1] = "@" /\ n > 0 /\ m > 0
        THEN [matched |-> TRUE, slug |-> SubSeq(rawMessage, 2, n + 1),
              rest |-> SubSeq(rawMessage, n + m + 2, Len(rawMessage))]
        ELSE [matched |-> FALSE, slug |-> <<>>, rest |-> <<>>]

\* The loop of lines 261-265: the first agent whose name is the candidate,
\* but for the case.
RECURSIVE AgentNamed(_, _)
AgentNamed(candidateId, i) ==
    IF i > Len(TextAgentList) THEN NULL
    ELSE IF toLowerCase(TextAgentName(TextAgentList[i])) = candidateId
    THEN TextAgentList[i]
    ELSE AgentNamed(candidateId, i + 1)

\* A parseAgentRouting that hands the raw text on with its prefix.
parseAgentRoutingKeepsPrefix(rawMessage, agents) ==
    LET match       == PrefixMatch(rawMessage)
        candidateId == toLowerCase(match.slug)
    IN  IF Len(detectMultipleTeamsText(rawMessage, agents)) > 1
        THEN [agentId |-> "error", message |-> "multiple teams"]
        ELSE IF match.matched /\ candidateId \in agents
        THEN [agentId |-> candidateId, message |-> rawMessage]
        ELSE IF match.matched /\ AgentNamed(candidateId, 1) # NULL
        THEN [agentId |-> AgentNamed(candidateId, 1), message |-> rawMessage]
        ELSE [agentId |-> "default", message |-> rawMessage]

\* parseAgentRouting(rawMessage, agents), lines 236-269.
parseAgentRoutingText(rawMessage, agents) ==
    LET match       == PrefixMatch(rawMessage)
        candidateId == toLowerCase(match.slug)
    IN  IF Len(detectMultipleTeamsText(rawMessage, agents)) > 1
        THEN [agentId |-> "error", message |-> "multiple teams"]
        ELSE IF match.matched /\ candidateId \in agents
        THEN [agentId |-> candidateId, message |-> match.rest]
        ELSE IF match.matched /\ AgentNamed(candidateId, 1) # NULL
        THEN [agentId |-> AgentNamed(candidateId, 1), message |-> match.rest]
        ELSE [agentId |-> "default", message |-> rawMessage]

\* parseAgentRouting is called with a raw text.
InitRouting ==
    /\ QueueStartup(0, FALSE)
    /\ hookRun = NoHookRun
    /\ eventRun = NoEventRun
    /\ boot = NoPlugins
    /\ \E rawMessage \in SeqsUpTo(Chars, MaxTextLen) :
          routeRun = [pc |-> "called", rawMessage |-> rawMessage]

\* The call returns.
ParseRouting ==
    /\ routeRun.pc = "called"
    /\ routeRun' = [pc |-> "returned", rawMessage |-> routeRun.rawMessage,
                    result |-> parseAgentRoutingText(routeRun.rawMessage, TextAgents)]
    /\ UNCHANGED <<messages, msgSeq, responses, respSeq, now, chains, run, conversations,
                   convSeq, quota, flow, resetFlags, agentProcessingChains, hookRun, eventRun, enqueueLog, holders, boot>>

NextRouting == ParseRouting

SpecRouting == InitRouting /\ [][NextRouting]_vars

\* ------------------------------------ the store under arbitrary callers

\* What the callers may hand to enqueueMessage.
StoreInputs ==
    {[channel |-> "telegram", sender |-> "alice", agent |-> NULL, message |-> "plain"],
     [channel |-> "telegram", sender |-> "alice", agent |-> "coder", message |-> "plain"]}
\* The agent ids the callers may claim for.
StoreClaimers == {"default", "coder"}

\* The data of an enqueueMessage call with the client's message id.
StoreData(input, messageId) ==
    [messageId |-> messageId, channel |-> input.channel, sender |-> input.sender,
     agent |-> input.agent, message |-> input.message, conversationId |-> NULL,
     fromAgent |-> NULL]

\* enqueueMessage(data) is called: it throws at the INSERT (line 154) before
\* the event of line 172, or it inserts the row and emits the event.
StoreEnqueue(input, messageId) ==
    LET data == StoreData(input, messageId)
        dup  == UniqueViolation(messages, data)
    IN  /\ IF dup THEN enqueueLog.thrown < MaxRejects ELSE msgSeq < quota
        /\ messages' = enqueueMessage(messages, msgSeq, data, now)
        /\ msgSeq' = IF dup THEN msgSeq ELSE msgSeq + 1
        /\ enqueueLog' = IF dup THEN [enqueueLog EXCEPT !.thrown = @ + 1]
                                ELSE [enqueueLog EXCEPT !.emitted = @ + 1]
        /\ UNCHANGED <<responses, respSeq, now, chains, run, conversations, convSeq,
                       quota, flow, resetFlags, agentProcessingChains, boot, routeRun, hookRun, eventRun, holders>>

\* claimNextMessage(agentId) returns a row.
StoreClaim(agentId) ==
    /\ \E r \in ClaimCandidates(messages, agentId) :
         /\ messages' = claimNextMessage(messages, agentId, r, now)
         /\ holders' = [holders EXCEPT ![r] = @ + 1]
    /\ UNCHANGED <<msgSeq, responses, respSeq, now, chains, run, conversations, convSeq,
                   quota, flow, resetFlags, agentProcessingChains, boot, routeRun, hookRun, eventRun, enqueueLog>>

StoreComplete(id) ==
    /\ id \in DOMAIN messages
    /\ messages' = completeMessage(messages, id, now)
    /\ messages' # messages
    /\ UNCHANGED <<msgSeq, responses, respSeq, now, chains, run, conversations, convSeq,
                   quota, flow, resetFlags, agentProcessingChains, boot, routeRun, hookRun, eventRun, enqueueLog, holders>>

\* failMessage(id, error); the calls stop once the counter has passed MAX_RETRIES.
StoreFail(id) ==
    /\ id \in DOMAIN messages
    /\ messages[id].retry_count <= MAX_RETRIES
    /\ messages' = failMessage(messages, id, "E1", now)
    /\ holders' = [holders EXCEPT ![id] =
                      IF messages'[id].status = "pending" THEN 0 ELSE @]
    /\ UNCHANGED <<msgSeq, responses, respSeq, now, chains, run, conversations, convSeq,
                   quota, flow, resetFlags, agentProcessingChains, boot, routeRun, hookRun, eventRun, enqueueLog>>

InitStore == Startup(MaxRows, FALSE)

NextStore ==
    \/ \E input \in StoreInputs : StoreEnqueue(input, msgSeq + 1)
    \/ \E agentId \in StoreClaimers : StoreClaim(agentId)
    \/ \E id \in RowIds : StoreComplete(id)
    \/ \E id \in RowIds : StoreFail(id)
    \/ \E id \in RowIds : RetryDeadRoute(id)
    \/ \E id \in RowIds : DeleteDeadRoute(id)

SpecStore == InitStore /\ [][NextStore]_vars

\* The store when its callers may also use a message id a second time.
NextDup ==
    \/ \E input \in StoreInputs, messageId \in 1..(msgSeq + 1) :
          StoreEnqueue(input, messageId)
    \/ \E agentId \in StoreClaimers : StoreClaim(agentId)
    \/ \E id \in RowIds : StoreComplete(id)
    \/ \E id \in RowIds : DeleteDeadRoute(id)

\* The table is empty or holds the dead row of a former run.
InitDup == Startup(MaxRows, FALSE) \/ Startup(MaxRows + 1, TRUE)

SpecDup == InitDup /\ [][NextDup]_vars

\* The store while rows for no agent, for default and for coder arrive at
\* different times and the callers claim for every configured agent.
ClaimInputs ==
    StoreInputs \cup
    {[channel |-> "telegram", sender |-> "alice", agent |-> "default", message |-> "plain"]}

\* claimNextMessage(agentId) is called: it returns a row, or null.
ClaimCall(agentId) ==
    \E res \in ClaimOutcomes(messages, agentId, now) :
        /\ res.found
        /\ messages' = res.msgs
        /\ holders' = [holders EXCEPT ![res.row] = @ + 1]
        /\ UNCHANGED <<msgSeq, responses, respSeq, now, chains, run, conversations, convSeq,
                       quota, flow, resetFlags, agentProcessingChains, boot, routeRun, hookRun, eventRun,
                       enqueueLog>>

InitClaim == Startup(MaxClaimRows, FALSE)

NextClaim ==
    \/ Tick
    \/ \E input \in ClaimInputs : StoreEnqueue(input, msgSeq + 1)
    \/ \E agentId \in Agents : ClaimCall(agentId)
    \/ \E id \in RowIds : StoreComplete(id)

SpecClaim == InitClaim /\ [][NextClaim]_vars

\* ---------------------------- the daemon with a row that has failed before

\* A message with no target and no @prefix.
PlainInput ==
    [channel |-> "telegram", sender |-> "alice", agent |-> NULL, message |-> "plain"]

\* A row a former run of the daemon has failed MAX_RETRIES - 1 times: failMessage
\* left it pending, and nothing claimed it before the daemon stopped.
FailedBefore ==
    [NewMessageRow(StoreData(PlainInput, 1), 0 - 1) EXCEPT
        !.retry_count = MAX_RETRIES - 1, !.last_error = "E1"]

InitRetry ==
    /\ hookRun = NoHookRun
    /\ eventRun = NoEventRun
    /\ boot = NoPlugins
    /\ routeRun = NoRouteRun
    /\ messages = [r \in {1} |-> FailedBefore]
    /\ msgSeq = 1
    /\ quota = 1 + MaxRetryMsgs
    /\ enqueueLog = [emitted |-> 0, thrown |-> 0]
    /\ responses = <<>>
    /\ respSeq = 0
    /\ now = 0
    /\ chains = [k \in ChainKeys |-> <<>>]
    /\ flow = NoFlow
    /\ resetFlags = {}
    /\ agentProcessingChains = [k \in ChainKeys |-> FALSE]
    /\ run = [k \in ChainKeys |-> IdleRun]
    /\ conversations = [c \in {} |-> NULL]
    /\ convSeq = 0
    /\ holders = [r \in RowIds |-> 0]

\* The daemon with its clock and its recovery timer while plain messages arrive.
NextRetry ==
    \/ Tick
    \/ Enqueue(PlainInput)
    \/ \E k \in ChainKeys : ProcessThrows(k)
    \/ \E k \in ChainKeys : StartProcess(k)
    \/ \E k \in ChainKeys, outcome \in Outcomes : InvokeReturn(k, outcome)
    \/ RecoverTimer

SpecRetry == InitRetry /\ [][NextRetry]_vars

\* ------------------------------------------- the store over days: pruning

\* The clock's last value where rows grow older than the retention.
MaxPruneTime == PruneRetentionMs + 1

\* Date.now() moves on by a day and ten minutes: the timers of lines 397-405
\* fire every hour, and what was written before is older than the retention.
Sleep ==
    /\ now + PruneRetentionMs + 1 <= MaxPruneTime
    /\ now' = now + PruneRetentionMs + 1
    /\ UNCHANGED <<messages, msgSeq, responses, respSeq, chains, run, conversations,
                   convSeq, quota, flow, resetFlags, agentProcessingChains, hookRun, eventRun, enqueueLog, holders, boot, routeRun>>

\* enqueueResponse(data) is called for the reply to a message.
StoreRespond ==
    /\ respSeq < MaxResponses
    /\ responses' = enqueueResponse(responses, respSeq,
                        [messageId |-> respSeq + 1, channel |-> "telegram",
                         sender |-> "alice", message |-> "reply", agent |-> "default",
                         via |-> "direct"], now)
    /\ respSeq' = respSeq + 1
    /\ UNCHANGED <<messages, msgSeq, now, chains, run, conversations, convSeq, quota, flow, resetFlags, agentProcessingChains,
                   hookRun, eventRun, enqueueLog, holders, boot, routeRun>>

\* setInterval of lines 397-400, when it has something to prune.
PruneResponsesTimer ==
    /\ responses' = pruneAckedResponses(responses, PruneRetentionMs, now)
    /\ responses' # responses
    /\ UNCHANGED <<messages, msgSeq, respSeq, now, chains, run, conversations, convSeq,
                   quota, flow, resetFlags, agentProcessingChains, hookRun, eventRun, enqueueLog, holders, boot, routeRun>>

\* setInterval of lines 402-405, when it has something to prune.
PruneMessagesTimer ==
    /\ messages' = pruneCompletedMessages(messages, PruneRetentionMs, now)
    /\ messages' # messages
    /\ UNCHANGED <<msgSeq, responses, respSeq, now, chains, run, conversations, convSeq,
                   quota, flow, resetFlags, agentProcessingChains, hookRun, eventRun, enqueueLog, holders, boot, routeRun>>

\* The table holds the dead row of a former run.
InitPrune == Startup(MaxRows + 1, TRUE)

NextPrune ==
    \/ Sleep
    \/ StoreEnqueue(PlainInput, msgSeq + 1)
    \/ StoreClaim("default")
    \/ \E id \in RowIds : StoreComplete(id)
    \/ StoreRespond
    \/ \E id \in RowIds : AckRoute(id)
    \/ \E id \in RowIds : DeleteDeadRoute(id)
    \/ PruneResponsesTimer
    \/ PruneMessagesTimer

SpecPrune == InitPrune /\ [][NextPrune]_vars

\* ------------------------------------- the responses table under its pollers

\* The channels whose clients poll.
PollChannels == {"telegram", "discord"}

\* enqueueResponse(data) is called for a reply that goes to a channel.
PollRespond(channel) ==
    /\ respSeq < MaxPollResponses
    /\ responses' = enqueueResponse(responses, respSeq,
                        [messageId |-> respSeq + 1, channel |-> channel,
                         sender |-> "alice", message |-> "reply", agent |-> "default",
                         via |-> "direct"], now)
    /\ respSeq' = respSeq + 1
    /\ UNCHANGED <<messages, msgSeq, now, chains, run, conversations, convSeq, quota, flow, resetFlags,
                   agentProcessingChains, hookRun, eventRun, enqueueLog, holders, boot,
                   routeRun>>

InitPoll == Startup(0, FALSE)

NextPoll ==
    \/ Tick
    \/ \E channel \in PollChannels : PollRespond(channel)
    \/ \E id \in RowIds : AckRoute(id)

SpecPoll == InitPoll /\ [][NextPoll]_vars

\* ------------------------- processMessage step by step, outside a team

\* The follow-up to writer of a conversation that has left the map since: the
\* row has been pending since a pass that claimed another row of writer.
OrphanFollowUp ==
    NewMessageRow(InternalData("1", "coder", "writer", 0,
                               [channel |-> "telegram", sender |-> "alice"]), 0)

InitFlow ==
    /\ hookRun = NoHookRun
    /\ eventRun = NoEventRun
    /\ boot = NoPlugins
    /\ routeRun = NoRouteRun
    /\ messages = [r \in {1} |-> OrphanFollowUp]
    /\ msgSeq = 1
    /\ quota = 1 + MaxFlowMsgs
    /\ enqueueLog = [emitted |-> 1, thrown |-> 0]
    /\ responses = <<>>
    /\ respSeq = 0
    /\ now = 0
    /\ chains = [k \in ChainKeys |-> <<>>]
    /\ agentProcessingChains = [k \in ChainKeys |-> FALSE]
    /\ run = [k \in ChainKeys |-> IdleRun]
    /\ conversations = [c \in {} |-> NULL]
    /\ convSeq = 1
    /\ holders = [r \in RowIds |-> 0]
    /\ flow = NoFlow
    /\ resetFlags = {}

\* agents.sh, agent_reset: touch "$AGENTS_DIR/$agent_id/reset_flag"
CreateResetFlag(agentId) ==
    /\ agentId \notin resetFlags
    /\ resetFlags' = resetFlags \cup {agentId}
    /\ UNCHANGED <<messages, msgSeq, responses, respSeq, now, chains, run, conversations,
                   convSeq, quota, agentProcessingChains, flow, hookRun, eventRun,
                   enqueueLog, holders, boot, routeRun>>

\* Events for internal follow-ups as for every other message.
EventsBeforeHooksAlways(isInternal) == <<"message_received", "agent_routed">>

\* Lines 72-74 and 113-115: the events processMessage emits before it comes to
\* the incoming hooks.
EventsBeforeHooks(isInternal) ==
    IF isInternal THEN <<>> ELSE <<"message_received", "agent_routed">>

\* invokeAgent: continueConversation (shouldResume) = !shouldReset decides
\* whether the command line gets its -c (resume --last).
ContinueSwitch(shouldReset) == IF shouldReset THEN "fresh" ELSE "continue"

\* Lines 48-160: processMessage from its start to the await of
\* runIncomingHooks, for a message without team context; the reset flag of
\* the agent is read and unlinked on the way (lines 138-144).
FlowStart(k) ==
    /\ chains[k] # <<>>
    /\ run[k].pc = "idle"
    /\ LET dbMsg       == Head(chains[k])
           isInternal  == dbMsg.conversation_id # NULL
           agentId     == ResolveAgent(dbMsg)
           shouldReset == agentId \in resetFlags
       IN  /\ TeamContext(dbMsg, agentId, conversations) = NULL
           /\ run' = [run EXCEPT ![k] = [pc |-> "incoming", agentId |-> agentId,
                                         teamContext |-> NULL, conv |-> NULL]]
           /\ resetFlags' = IF shouldReset THEN resetFlags \ {agentId} ELSE resetFlags
           /\ flow' = [flow EXCEPT ![k] =
                          [pc |-> "followed", id |-> dbMsg.id, shouldReset |-> shouldReset,
                           switch |-> "none", text |-> "",
                           trace |-> EventsBeforeHooks(isInternal)
                                        \o <<"transformIncoming">>]]
    /\ UNCHANGED <<messages, msgSeq, responses, respSeq, now, chains, conversations,
                   convSeq, quota, agentProcessingChains, hookRun, eventRun, enqueueLog,
                   holders, boot, routeRun>>

\* Lines 160-166: runIncomingHooks has returned, chain_step_start is emitted
\* and invokeAgent is called; or runIncomingHooks has rejected (plugins.ts
\* 192, a hook that threw no value) and the catch of lines 286-289 fails the row.
FlowHooksIn(k, rejects) ==
    /\ run[k].pc = "incoming"
    /\ IF rejects
       THEN CatchAndFail(k, Head(chains[k]))
       ELSE /\ run' = [run EXCEPT ![k].pc = "invoking"]
            /\ flow' = [flow EXCEPT ![k].switch = ContinueSwitch(flow[k].shouldReset),
                                    ![k].trace = @ \o <<"chain_step_start", "invokeAgent">>]
            /\ UNCHANGED <<messages, msgSeq, responses, respSeq, now, chains,
                           conversations, convSeq, quota, agentProcessingChains,
                           resetFlags, hookRun, eventRun, enqueueLog, holders, boot,
                           routeRun>>

\* Lines 164-189: invokeAgent has returned or thrown, chain_step_done is
\* emitted and runOutgoingHooks is called.
FlowInvoked(k, outcome) ==
    /\ run[k].pc = "invoking"
    /\ outcome.mentions = <<>>
    /\ run' = [run EXCEPT ![k].pc = "outgoing"]
    /\ flow' = [flow EXCEPT ![k].text = InvokeResult(outcome).text,
                            ![k].trace = @ \o InvokeResult(outcome).events
                                           \o <<"transformOutgoing">>]
    /\ UNCHANGED <<messages, msgSeq, responses, respSeq, now, chains, conversations,
                   convSeq, quota, agentProcessingChains, resetFlags, hookRun, eventRun,
                   enqueueLog, holders, boot, routeRun>>

\* Lines 189-211: runOutgoingHooks has returned: the response is enqueued,
\* response_ready is emitted and the row is completed; or it has rejected
\* (plugins.ts 166) and the row is failed.
FlowHooksOut(k, rejects) ==
    /\ run[k].pc = "outgoing"
    /\ IF rejects
       THEN CatchAndFail(k, Head(chains[k]))
       ELSE LET dbMsg == Head(chains[k])
            IN  /\ responses' = enqueueResponse(responses, respSeq,
                                    ReplyData(dbMsg, run[k].agentId,
                                              [text |-> flow[k].text]), now)
                /\ respSeq' = respSeq + 1
                /\ messages' = completeMessage(messages, dbMsg.id, now)
                /\ chains' = [chains EXCEPT ![k] = Tail(@)]
                /\ agentProcessingChains' =
                       ChainSettled(agentProcessingChains, chains, k)
                /\ run' = [run EXCEPT ![k] = IdleRun]
                /\ flow' = [flow EXCEPT ![k].trace =
                               @ \o <<"enqueueResponse", "response_ready",
                                      "completeMessage">>]
                /\ UNCHANGED <<msgSeq, now, conversations, convSeq, quota, resetFlags,
                               hookRun, eventRun, enqueueLog, holders, boot, routeRun>>

NextFlow ==
    \/ Enqueue(PlainInput)
    \/ \E agentId \in {"default", "writer"} : CreateResetFlag(agentId)
    \/ \E k \in ChainKeys : FlowStart(k)
    \/ \E k \in ChainKeys, rejects \in BOOLEAN : FlowHooksIn(k, rejects)
    \/ \E k \in ChainKeys, outcome \in Outcomes : FlowInvoked(k, outcome)
    \/ \E k \in ChainKeys, rejects \in BOOLEAN : FlowHooksOut(k, rejects)

SpecFlow == InitFlow /\ [][NextFlow]_vars

\* ---------------------------------------------------------------- claims

\* C1: claim exclusivity. From the moment a row is pending until failMessage,
\* recoverStaleMessages or retryDeadMessage sets it back to pending, at most one
\* claimNextMessage call returns the row, whatever agent ids the calls are for.
C1_ClaimExclusive == \A r \in RowIds : holders[r] <= 1

\* A row that was claimed, failed, and claimed again by the one call that may.
C1_Witness ==
    \E r \in DOMAIN messages :
        /\ messages[r].status = "processing"
        /\ messages[r].retry_count >= 1
        /\ holders[r] = 1

\* An invocation of agent a is in progress on chain k.
InFlight(k, a) == run[k].pc = "invoke" /\ run[k].agentId = a

\* C2: at most one in-flight task per agent: at no moment are two invocations
\* with the same resolved agent in progress.
C2_OneInFlightPerAgent ==
    \A a \in Agents : \A k1, k2 \in ChainKeys :
        (InFlight(k1, a) /\ InFlight(k2, a)) => k1 = k2

\* The chain a row is claimed for: COALESCE(agent, 'default').
KeyOf(row) == IF row.agent = NULL THEN "default" ELSE row.agent

\* C3: per-agent FIFO: of two rows claimed for the same agent, the one enqueued
\* first is never the one that reaches completed last.
C3_PerAgentFifo ==
    [][\A i, j \in DOMAIN messages :
          (/\ i < j
           /\ KeyOf(messages[i]) = KeyOf(messages[j])
           /\ messages[j].status = "completed"
           /\ messages[i].status # "completed")
          => ~(i \in DOMAIN messages' /\ messages'[i].status = "completed")]_vars

\* C4: branch-count invariant: while the lock of a conversation is held, its
\* pending counter is the number of messages enqueued into it minus the number
\* of step records in its responses.
C4_BranchCount ==
    \A c \in DOMAIN conversations :
        LockHeld(c) =>
            conversations[c].pending
                = conversations[c].enqueued - Len(conversations[c].responses)

\* C5: one completion per team-scoped request: no two user-facing response
\* rows of completed conversations carry the same originating message id.
C5_SingleCompletion ==
    \A i, j \in DOMAIN responses :
        (/\ i # j
         /\ responses[i].via = "team"
         /\ responses[j].via = "team")
        => responses[i].message_id # responses[j].message_id

\* A step in which failMessage is applied to row r.
FailStep(r) ==
    /\ r \in DOMAIN messages
    /\ r \in DOMAIN messages'
    /\ messages'[r].retry_count = messages[r].retry_count + 1

\* C6: retry and dead-letter: failMessage on a row with retry_count n sets it
\* to n + 1, stores the error, clears the claimer and sets status dead if
\* n + 1 >= MAX_RETRIES and pending otherwise; a dead row is returned by no
\* claimNextMessage call, and only retryDeadMessage (which resets the counter)
\* makes it pending again.
C6_RetryAndDeadLetter ==
    [][\A r \in RowIds :
          /\ FailStep(r) =>
                /\ messages'[r].last_error = "E1"
                /\ messages'[r].claimed_by = NULL
                /\ messages'[r].status =
                      IF messages[r].retry_count + 1 >= MAX_RETRIES THEN "dead"
                                                                    ELSE "pending"
          /\ (r \in DOMAIN messages /\ messages[r].status = "dead") =>
                /\ \A a \in Agents : r \notin ClaimCandidates(messages, a)
                /\ (r \in DOMAIN messages' /\ messages'[r].status = "pending")
                      => messages'[r].retry_count = 0]_vars

\* A row dead after five claims that each ended in failMessage.
C6_Witness ==
    \E r \in DOMAIN messages :
        /\ messages[r].status = "dead"
        /\ messages[r].retry_count = MAX_RETRIES
        /\ holders[r] = 1

\* C7: in every state of the messages table, a row in status processing has a
\* claimer and a row in status pending has none.
C7_ClaimerMatchesStatus ==
    \A r \in DOMAIN messages :
        /\ messages[r].status = "processing" => messages[r].claimed_by # NULL
        /\ messages[r].status = "pending" => messages[r].claimed_by = NULL

\* A row that recovery or a retry of the dead-letter queue has set back to
\* pending, next to a row that is claimed.
C7_Witness ==
    \E r, q \in DOMAIN messages :
        /\ messages[r].status = "pending"
        /\ messages[r].updated_at > messages[r].created_at
        /\ messages[q].status = "processing"

\* C8: ack is idempotent: ackResponse on a row that is acked leaves it as it is.
C8_AckIdempotent ==
    [][\A id \in DOMAIN responses :
          responses[id].status = "acked" => responses'[id] = responses[id]]_vars

\* The table recoverStaleMessages would leave in this state.
Recovered == recoverStaleMessages(messages, StaleThresholdMs, now)

\* C9: recoverStaleMessages sets to pending, with no claimer and the same
\* retry_count, the rows in status processing whose updated_at is older than
\* the threshold, and leaves every other row as it is.
C9_RecoverExact ==
    /\ DOMAIN Recovered = DOMAIN messages
    /\ \A r \in DOMAIN messages :
          IF /\ messages[r].status = "processing"
             /\ messages[r].updated_at < now - StaleThresholdMs
          THEN /\ Recovered[r].status = "pending"
               /\ Recovered[r].claimed_by = NULL
               /\ Recovered[r].retry_count = messages[r].retry_count
          ELSE Recovered[r] = messages[r]

\* The timer has recovered a row (never failed, yet pending and updated after
\* it was created) and has left a row claimed within the threshold.
C9_Witness ==
    \E r, q \in DOMAIN messages :
        /\ messages[r].status = "pending"
        /\ messages[r].last_error = NULL
        /\ messages[r].updated_at > messages[r].created_at
        /\ messages[q].status = "processing"
        /\ messages[q].updated_at >= now - StaleThresholdMs

\* The step in which the invocation run on chain k comes to its end.
InvocationEnds(k) == run[k].pc = "invoke" /\ run'[k].pc # "invoke"

\* The step in which the answer to a failed invocation is recorded: a response
\* row or a step record with the apology.
ApologyRecorded(k) ==
    /\ InvocationEnds(k)
    /\ \/ /\ respSeq' = respSeq + 1
          /\ responses'[respSeq'].message = APOLOGY
       \/ /\ run'[k].pc = "lockwait"
          /\ LET steps == conversations'[run'[k].conv].responses
             IN  steps[Len(steps)].response = APOLOGY

\* C10 as stated: every claim of a message whose agent's subprocess fails ends
\* in a failure that increments retry_count.
C10_FailedInvocationCounts ==
    [][\A k \in ChainKeys :
          ApologyRecorded(k) =>
              LET r == Head(chains[k]).id
              IN  /\ r \in DOMAIN messages'
                  /\ messages'[r].retry_count = messages[r].retry_count + 1]_vars

\* C10: the end of an invocation, failed or not, leaves the retry_count of its
\* row as it is; a failed invocation of a message outside a team is answered by
\* the apology, and its row is completed.
C10_FailedInvocationAnswered ==
    [][\A k \in ChainKeys :
          InvocationEnds(k) =>
              LET r == Head(chains[k]).id
              IN  r \in DOMAIN messages =>
                    /\ r \in DOMAIN messages'
                    /\ messages'[r].retry_count = messages[r].retry_count
                    /\ (ApologyRecorded(k) /\ run[k].teamContext = NULL) =>
                          /\ messages'[r].status = "completed"
                          /\ responses'[respSeq'].message_id = messages[r].message_id]_vars

\* The sender of a message outside a team has the apology, and the row is
\* completed with no failure counted.
C10_Witness ==
    \E i \in DOMAIN responses : \E r \in DOMAIN messages :
        /\ responses[i].message = APOLOGY
        /\ responses[i].via = "direct"
        /\ responses[i].message_id = messages[r].message_id
        /\ messages[r].status = "completed"
        /\ messages[r].retry_count = 0

\* Row r is pending because the recovery timer has reset it: never failed,
\* never retried from the dead-letter queue, yet updated after it was created.
RecoveredPending(r) ==
    /\ r \in DOMAIN messages
    /\ messages[r].status = "pending"
    /\ messages[r].retry_count = 0
    /\ messages[r].last_error = NULL
    /\ messages[r].updated_at > messages[r].created_at

\* A step of the daemon that claims row r though no message is enqueued.
ClaimedWithoutEnqueue(r) ==
    /\ NextTimed
    /\ msgSeq' = msgSeq
    /\ r \in DOMAIN messages'
    /\ messages'[r].status = "processing"

\* C11: stale recovery scenario: a row that recoverStaleMessages has returned
\* to pending is claimed by the dispatcher's next cycle with no other message
\* having to be enqueued: the daemon has a step that claims it without an enqueue.
C11_RecoveredRowClaimed ==
    \A r \in RowIds : RecoveredPending(r) => ENABLED ClaimedWithoutEnqueue(r)

\* The row at the head of chain k belongs to a conversation that the TTL sweep
\* has removed.
OrphanBranch(k) ==
    /\ chains[k] # <<>>
    /\ LET c == Head(chains[k]).conversation_id
       IN  /\ c # NULL
           /\ c \in DOMAIN conversations
           /\ conversations[c].swept

\* C12: conversation timeout: once the TTL sweep has removed a conversation,
\* a step of one of its in-flight branches or of one of its still-queued
\* internal follow-ups enqueues no response row and creates no conversation.
C12_OrphanBranchNoOp ==
    [][\A k \in ChainKeys :
         OrphanBranch(k) /\ run'[k] # run[k] =>
             respSeq' = respSeq /\ convSeq' = convSeq]_vars

\* C13: safety cap: the number of steps recorded in a conversation never
\* exceeds the conversation's maxMessages.
C13_TotalWithinCap ==
    \A c \in DOMAIN conversations :
        conversations[c].totalMessages <= conversations[c].maxMessages

\* The row is not pre-routed and its text mentions several agents.
IsMultiTarget(dbMsg) ==
    /\ ~(dbMsg.agent # NULL /\ dbMsg.agent \in Agents)
    /\ Len(detectMultipleTeams(dbMsg.body)) > 1

\* C14: multi-target short-circuit: processing a message that is not
\* pre-routed and mentions two or more agents invokes no agent.
C14_MultiTargetNoInvoke ==
    \A k \in ChainKeys :
        (chains[k] # <<>> /\ IsMultiTarget(Head(chains[k]))) => run[k].pc # "invoke"

\* C15: cross-agent parallelism: a claimed message is never queued behind an
\* in-flight invocation of an agent other than the one it resolves to.
C15_NoWaitBehindOtherAgent ==
    \A k \in ChainKeys :
        run[k].pc = "invoke" =>
            \A i \in 2..Len(chains[k]) : ResolveAgent(chains[k][i]) = run[k].agentId

\* The step in which the task of chain k ends the processing of a message
\* that has no team context.
DirectCycleEnds(k) ==
    /\ run[k].pc = "invoke"
    /\ run[k].teamContext = NULL
    /\ run'[k].pc = "idle"

\* C16: direct reply: the processing of a message that resolves to an agent
\* with no team context enqueues exactly one response row, with the channel,
\* the sender and the message id of the message and with the resolved agent
\* as its agent, and sets the message row to completed.
C16_DirectReply ==
    [][\A k \in ChainKeys :
          DirectCycleEnds(k) =>
              LET r == Head(chains[k]).id
              IN  /\ respSeq' = respSeq + 1
                  /\ DOMAIN responses' = DOMAIN responses \cup {respSeq'}
                  /\ \A i \in DOMAIN responses : responses'[i] = responses[i]
                  /\ responses'[respSeq'].channel = messages[r].channel
                  /\ responses'[respSeq'].sender = messages[r].sender
                  /\ responses'[respSeq'].message_id = messages[r].message_id
                  /\ responses'[respSeq'].agent = ResolveAgent(messages[r])
                  /\ messages'[r].status = "completed"]_vars

\* Both senders have their direct reply from the agent their message resolved
\* to, and the rows are completed.
C16_Witness ==
    \A who \in {[channel |-> "telegram", sender |-> "alice"],
               [channel |-> "discord", sender |-> "bob"]} :
        \E i \in DOMAIN responses : \E r \in DOMAIN messages :
            /\ responses[i].via = "direct"
            /\ responses[i].channel = who.channel
            /\ responses[i].sender = who.sender
            /\ messages[r].channel = who.channel
            /\ messages[r].agent = NULL
            /\ responses[i].message_id = messages[r].message_id
            /\ responses[i].agent = "default"
            /\ messages[r].status = "completed"

\* invokeAgent rejects: non-zero exit or spawn error.
FailedOutcome == [error |-> TRUE, mentions |-> <<>>]

\* The task of chain k is in the team path, after its step was recorded.
InTeamPath(k) == run[k].pc \in {"lockwait", "locked"}

\* C17: invocation failure is not a message failure: when invokeAgent fails,
\* chain_step_done is emitted, the apology is the text of the response row or
\* of the conversation step, the retry_count of the row never changes, and
\* the row is completed when its task ends.
C17_InvocationFailureNotMessageFailure ==
    [][\A k \in ChainKeys :
          /\ InvokeReturn(k, FailedOutcome) =>
                LET r == Head(chains[k]).id
                IN  /\ \E i \in DOMAIN InvokeResult(FailedOutcome).events :
                          InvokeResult(FailedOutcome).events[i] = "chain_step_done"
                    /\ messages'[r].retry_count = messages[r].retry_count
                    /\ IF run[k].teamContext = NULL
                       THEN /\ respSeq' = respSeq + 1
                            /\ responses'[respSeq'].message = APOLOGY
                            /\ messages'[r].status = "completed"
                       ELSE /\ run'[k].pc = "lockwait"
                            /\ LET steps == conversations'[run'[k].conv].responses
                               IN  steps[Len(steps)] =
                                      [agentId |-> run[k].agentId, response |-> APOLOGY]
                            /\ messages'[r].status = messages[r].status
          /\ InTeamPath(k) =>
                LET r == Head(chains[k]).id
                IN  /\ messages'[r].retry_count = messages[r].retry_count
                    /\ messages'[r].status =
                          IF run'[k].pc = "idle" THEN "completed" ELSE messages[r].status]_vars

\* A teammate's invocation has failed: its apology is a step of the
\* conversation, and its row is completed with no failure counted.
C17_Witness ==
    \E c \in DOMAIN conversations : \E i \in DOMAIN conversations[c].responses :
        \E r \in DOMAIN messages :
            /\ conversations[c].responses[i].response = APOLOGY
            /\ messages[r].conversation_id = c
            /\ messages[r].agent = conversations[c].responses[i].agentId
            /\ messages[r].status = "completed"
            /\ messages[r].retry_count = 0

\* The messages table holds a row with this message id.
IdExists(messageId) == \E r \in DOMAIN messages : messages[r].message_id = messageId

\* C18: enqueueMessage with a message id that exists in the table, in any
\* status, throws, leaves the table as it is and emits no 'message:enqueued';
\* with a fresh id it appends one row, pending with retry_count 0 and no
\* claimer, and emits one 'message:enqueued'.
C18_DuplicateEnqueueRejected ==
    [][\A input \in StoreInputs, messageId \in 1..(msgSeq + 1) :
          StoreEnqueue(input, messageId) =>
              IF IdExists(messageId)
              THEN /\ messages' = messages
                   /\ msgSeq' = msgSeq
                   /\ enqueueLog'.thrown = enqueueLog.thrown + 1
                   /\ enqueueLog'.emitted = enqueueLog.emitted
              ELSE /\ DOMAIN messages' = DOMAIN messages \cup {msgSeq'}
                   /\ msgSeq' \notin DOMAIN messages
                   /\ \A r \in DOMAIN messages : messages'[r] = messages[r]
                   /\ messages'[msgSeq'].message_id = messageId
                   /\ messages'[msgSeq'].status = "pending"
                   /\ messages'[msgSeq'].retry_count = 0
                   /\ messages'[msgSeq'].claimed_by = NULL
                   /\ enqueueLog'.thrown = enqueueLog.thrown
                   /\ enqueueLog'.emitted = enqueueLog.emitted + 1]_vars

\* A call with the id of a row that is no longer pending was rejected, and a
\* call with a fresh id has added its row.
C18_Witness ==
    /\ enqueueLog.thrown > 0
    /\ enqueueLog.emitted > 1
    /\ \E r, q \in DOMAIN messages :
          /\ r # q
          /\ messages[r].status \in {"processing", "completed", "dead"}
          /\ \A u \in DOMAIN messages : u # r => messages[u].message_id # messages[r].message_id

\* The hook neither is missing nor throws.
Transforms(plugin, direction) ==
    HookOf(plugin, direction) \in {"string", "result", "resultCustom"}

\* The pipeline of the hooks that do not throw, as one pass over the list.
RECURSIVE PipelineOf(_, _, _)
PipelineOf(plugins, direction, acc) ==
    IF plugins = <<>> THEN acc
    ELSE LET hook == HookOf(Head(plugins), direction)
             step == IF hook = "string"
                     THEN [acc EXCEPT !.text = Append(@, Head(plugins).name)]
                     ELSE [text |-> Append(acc.text, Head(plugins).name),
                           metadata |-> Spread(acc.metadata,
                                               HookMetadata(Head(plugins), hook))]
         IN  PipelineOf(Tail(plugins), direction, step)

\* C19: a hook that throws is skipped: runIncomingHooks and runOutgoingHooks
\* return normally, with the result of the pipeline of the other hooks.
C19_ThrowingHookSkipped ==
    /\ hookRun.pc # "rejected"
    /\ hookRun.pc = "returned" =>
          [text |-> hookRun.text, metadata |-> hookRun.metadata] =
              PipelineOf(SelectSeq(hookRun.plugins,
                                   LAMBDA plugin : Transforms(plugin, hookRun.direction)),
                         hookRun.direction, [text |-> <<>>, metadata |-> <<>>])

\* C20: event delivery is isolated: emitEvent does not throw to its caller,
\* every registered listener receives the event, and so does every plugin
\* handler when the listener of the plugin system is registered.
C20_EventDeliveryIsolated ==
    eventRun.pc = "emitted" =>
        /\ ~eventRun.thrown
        /\ eventRun.received = DOMAIN eventRun.listeners
        /\ (\E i \in DOMAIN eventRun.listeners : eventRun.listeners[i] = "plugins") =>
              eventRun.handled = DOMAIN (eventRun.typeHandlers \o eventRun.wildcardHandlers)

\* The task of chain k holds the lock of its conversation.
HoldsLock(k) == run[k].pc = "locked"

\* C21: the conversation lock is never held across an invocation in the same
\* task: a task takes the lock only after its invokeAgent has returned and its
\* step is recorded, starts no invocation while it holds the lock, and the
\* step after the lock is taken releases it, completes the row and ends the task.
C21_NoLockAcrossInvocation ==
    [][\A k \in ChainKeys :
          /\ (HoldsLock(k)' /\ ~HoldsLock(k)) =>
                /\ run[k].pc = "lockwait"
                /\ LET steps == conversations[run[k].conv].responses
                   IN  \E i \in DOMAIN steps : steps[i].agentId = run[k].agentId
          /\ run'[k].pc = "invoke" => ~HoldsLock(k)
          /\ (HoldsLock(k) /\ run'[k] # run[k]) =>
                /\ run'[k] = IdleRun
                /\ chains'[k] = Tail(chains[k])
                /\ messages'[Head(chains[k]).id].status = "completed"]_vars

\* One task holds the lock of a conversation while the invocation of another
\* task of the same conversation is in progress.
C21_Witness ==
    \E k, j \in ChainKeys :
        /\ HoldsLock(k)
        /\ run[j].pc = "invoke"
        /\ chains[j] # <<>>
        /\ Head(chains[j]).conversation_id = run[k].conv

\* C22: initialization order: loadPlugins has returned before the dispatcher
\* claims a message, so no row is claimed and no message is processed while
\* plugins are still being loaded.
C22_PluginsLoadedBeforeDispatch ==
    boot.done \/ (/\ \A r \in DOMAIN messages : messages[r].status = "pending"
                  /\ \A k \in ChainKeys : chains[k] = <<>> /\ run[k] = IdleRun)

\* C23: the claimer is non-null only while the status is processing: every
\* row whose status is completed or dead has a null claimer.
C23_TerminalRowsUnclaimed ==
    \A r \in DOMAIN messages :
        messages[r].status \in {"completed", "dead"} => messages[r].claimed_by = NULL

\* C24: every row in status dead has retry_count >= MAX_RETRIES, and a row
\* that retryDeadMessage returns to pending has retry_count 0.
C24_DeadRowsExhausted ==
    /\ [](\A r \in DOMAIN messages :
            messages[r].status = "dead" => messages[r].retry_count >= MAX_RETRIES)
    /\ [][\A id \in RowIds :
            RetryDeadRoute(id) =>
                /\ messages'[id].status = "pending"
                /\ messages'[id].retry_count = 0]_vars

\* A row that failed MAX_RETRIES times is dead, next to a row that the
\* operator has retried from the dead-letter queue.
C24_Witness ==
    \E r, q \in DOMAIN messages :
        /\ messages[r].status = "dead"
        /\ messages[r].retry_count = MAX_RETRIES
        /\ messages[q].status = "pending"
        /\ messages[q].retry_count = 0
        /\ messages[q].last_error # NULL

\* C25: the retry_count of every row lies in 0..MAX_RETRIES.
C25_RetryCountInRange ==
    \A r \in DOMAIN messages : messages[r].retry_count \in 0..MAX_RETRIES

\* C26: the operator's dead-letter operations act only on dead rows. On a dead
\* row retryDeadMessage sets status pending, retry_count 0 and no claimer, and
\* deleteDeadMessage removes the row, both leaving every other row as it is;
\* on an id that does not exist or whose row has another status both change
\* nothing and return false, and the routes answer 404.
C26_DeadLetterOpsOnlyOnDead ==
    \A id \in RowIds :
        LET retried == retryDeadMessage(messages, id, now)
            deleted == deleteDeadMessage(messages, id)
            ok      == deadRowChanged(messages, id)
        IN  IF id \in DOMAIN messages /\ messages[id].status = "dead"
            THEN /\ ok
                 /\ DeadRouteStatus(ok) = 200
                 /\ DOMAIN retried = DOMAIN messages
                 /\ retried[id].status = "pending"
                 /\ retried[id].retry_count = 0
                 /\ retried[id].claimed_by = NULL
                 /\ DOMAIN deleted = DOMAIN messages \ {id}
                 /\ \A r \in DOMAIN messages \ {id} :
                       retried[r] = messages[r] /\ deleted[r] = messages[r]
            ELSE /\ ~ok
                 /\ DeadRouteStatus(ok) = 404
                 /\ retried = messages
                 /\ deleted = messages

\* The operator has deleted one dead row and retried another, which is
\* pending again with its counter reset.
C26_Witness ==
    /\ Cardinality(DOMAIN messages) < msgSeq
    /\ \E q \in DOMAIN messages :
          /\ messages[q].status = "pending"
          /\ messages[q].retry_count = 0
          /\ messages[q].last_error # NULL

\* C27: pruning only removes old terminal rows. A row leaves the messages
\* table only when pruneCompletedMessages finds it completed and older than
\* the retention or when the operator deletes it dead; a row leaves the
\* responses table only when pruneAckedResponses finds it acked and older than
\* the retention; every row a prune leaves is unchanged.
C27_PruneOnlyOldTerminal ==
    [][/\ \A r \in DOMAIN messages \ DOMAIN messages' :
            \/ /\ messages[r].status = "completed"
               /\ messages[r].updated_at < now - PruneRetentionMs
               /\ messages' = pruneCompletedMessages(messages, PruneRetentionMs, now)
            \/ /\ messages[r].status = "dead"
               /\ messages' = deleteDeadMessage(messages, r)
       /\ \A i \in DOMAIN responses \ DOMAIN responses' :
            /\ responses[i].status = "acked"
            /\ responses[i].acked_at < now - PruneRetentionMs
            /\ responses' = pruneAckedResponses(responses, PruneRetentionMs, now)
       /\ DOMAIN messages \ DOMAIN messages' # {} =>
            /\ responses' = responses
            /\ \A r \in DOMAIN messages' : r \in DOMAIN messages /\ messages'[r] = messages[r]
       /\ DOMAIN responses \ DOMAIN responses' # {} =>
            /\ messages' = messages
            /\ \A i \in DOMAIN responses' :
                  i \in DOMAIN responses /\ responses'[i] = responses[i]]_vars

\* Both prunes have removed a row; the dead row, a pending response and a
\* row that is not completed, each older than the retention, are still there.
C27_Witness ==
    /\ Cardinality(DOMAIN messages) < msgSeq
    /\ Cardinality(DOMAIN responses) < respSeq
    /\ \E r, q \in DOMAIN messages :
          /\ messages[r].status = "dead"
          /\ messages[r].updated_at < now - PruneRetentionMs
          /\ messages[q].status \in {"pending", "processing"}
          /\ messages[q].updated_at < now - PruneRetentionMs
    /\ \E i \in DOMAIN responses :
          /\ responses[i].status = "pending"
          /\ responses[i].created_at < now - PruneRetentionMs

\* The raw text R reads @<slug><whitespace><rest>: an at sign, n characters
\* that are not whitespace, m of whitespace, and a rest that starts with none.
HasPrefixForm(R, n, m) ==
    /\ n >= 1 /\ m >= 1 /\ n + m + 1 <= Len(R)
    /\ R[1] = "@"
    /\ \A i \in 2..(n + 1) : ~IsSpace(R[i])
    /\ \A i \in (n + 2)..(n + m + 1) : IsSpace(R[i])
    /\ n + m + 1 < Len(R) => ~IsSpace(R[n + m + 2])

FailedPending(r) ==
    /\ r \in DOMAIN messages
    /\ messages[r].status = "pending"
    /\ messages[r].retry_count \in 1..(MAX_RETRIES - 1)
    /\ messages[r].last_error # NULL

\* A step of the daemon in which no message is enqueued.
StepWithoutEnqueue == Next /\ msgSeq' = msgSeq

\* C29: failed messages are retried: while a row that failMessage has returned
\* to pending waits, the daemon is not at rest: it has a step to take though no
\* further message is enqueued (and so comes to claim the row again).
C29_FailedRowRetried ==
    \A r \in RowIds : FailedPending(r) => ENABLED StepWithoutEnqueue

\* The ids of the conversations a run may create.
ConvIds == {ToString(i) : i \in 1..MaxMsgs}

\* Conversation c is in the map.
InMap(c) == c \in DOMAIN conversations /\ conversations[c].inMap

\* The tasks that have recorded their step in c and wait for its lock.
Waiting(c) == {k \in ChainKeys : run[k].pc = "lockwait" /\ run[k].conv = c}

AllIdle == \A k \in ChainKeys : chains[k] = <<>>

\* C31: no message is stranded in the failure-free case: when no step throws
\* and every invocation returns, once all executors are idle no row is left
\* in status pending or processing.
C31_NoMessageStranded ==
    AllIdle => \A r \in DOMAIN messages : messages[r].status \notin {"pending", "processing"}

\* The number of tasks queued or running for row r.
TasksOf(r) ==
    Cardinality({<<k, i>> \in ChainKeys \X RowIds :
                    i <= Len(chains[k]) /\ chains[k][i].id = r})

\* C32: no double processing: a row that is still queued in or running on
\* its agent's executor is never claimed a second time, so at no moment are
\* two tasks queued or running for the same row.
C32_NoDoubleProcessing == \A r \in DOMAIN messages : TasksOf(r) <= 1

\* The teammates that the answer of the team step of task k mentions.
StepMentions(k, outcome) ==
    extractTeammateMentions(InvokeResult(outcome).mentions, run[k].agentId,
                            run[k].teamContext)

\* The branch count of the conversation of a team step before the step: that of
\* the conversation in the map, or the one branch of a new conversation.
PendingBefore(c) == IF c \in DOMAIN conversations THEN conversations[c].pending ELSE 1

\* C33: a team step whose answer mentions n >= 1 teammates while the
\* conversation's totalMessages is below the cap enqueues exactly n internal
\* follow-ups, one per mention in order, each with the conversation's id and
\* the answering agent as from_agent, and raises pending by exactly n, all
\* before the branch's own decrement; a step without mentions, or one that
\* brings totalMessages to the cap, enqueues nothing and leaves pending as it is.
C33_FanOutAccounting ==
    [][\A k \in ChainKeys, outcome \in Outcomes :
          (run[k].pc = "invoke" /\ run[k].teamContext # NULL /\ InvokeReturn(k, outcome))
          => LET c     == run'[k].conv
                 m     == StepMentions(k, outcome)
                 below == conversations'[c].totalMessages < conversations'[c].maxMessages
                 n     == IF Len(m) >= 1 /\ below THEN Len(m) ELSE 0
             IN  /\ run'[k].pc = "lockwait"
                 /\ DOMAIN messages' = (DOMAIN messages) \cup (msgSeq + 1)..(msgSeq + n)
                 /\ msgSeq' = msgSeq + n
                 /\ \A i \in 1..n :
                       /\ msgSeq + i \notin DOMAIN messages
                       /\ messages'[msgSeq + i].agent = m[i]
                       /\ messages'[msgSeq + i].conversation_id = c
                       /\ messages'[msgSeq + i].from_agent = run[k].agentId
                 /\ conversations'[c].pending = PendingBefore(c) + n]_vars

\* A step has fanned out to two teammates, and another step has reached the
\* cap and enqueued nothing although its conversation's branches go on.
C33_Witness ==
    /\ \E c \in DOMAIN conversations :
          /\ conversations[c].totalMessages = 1
          /\ conversations[c].pending = 3
          /\ Cardinality({r \in DOMAIN messages : messages[r].conversation_id = c}) = 2
    /\ \E c \in DOMAIN conversations :
          /\ conversations[c].totalMessages = conversations[c].maxMessages
          /\ \E k \in ChainKeys : run[k].pc = "lockwait" /\ run[k].conv = c
          /\ msgSeq = CapRows + MaxFanMsgs

\* C34: agentProcessingChains has an entry for an agent exactly while some
\* task claimed under the agent has not finished: the entry is there from the
\* first claim on, it stays while a later task is queued behind the one that
\* finishes, and it is gone once the last chained task has settled.
C34_ExecutorMapLifecycle ==
    \A k \in ChainKeys : agentProcessingChains[k] <=> chains[k] # <<>>

\* One agent has a task queued behind its running one and keeps its entry,
\* while another agent's only task has settled and its entry is gone.
C34_Witness ==
    \E k, j \in ChainKeys :
        /\ Len(chains[k]) = 2
        /\ agentProcessingChains[k]
        /\ chains[j] = <<>>
        /\ ~agentProcessingChains[j]
        /\ \E r \in DOMAIN messages :
              messages[r].status = "completed" /\ messages[r].claimed_by = j

\* The rows claimNextMessage(A) is specified to choose from: pending, and
\* targeted at A or, for A = 'default', at no agent.
PendingFor(A) ==
    {r \in DOMAIN messages :
        /\ messages[r].status = "pending"
        /\ \/ messages[r].agent = A
           \/ (A = "default" /\ messages[r].agent = NULL)}

\* C35: claimNextMessage(A) returns a pending row with the smallest created
\* timestamp among the rows targeted at A (rows without target count for
\* 'default' only) and sets that row, and no other, to processing with claimer
\* A; when there is no such row it returns null and leaves the table as it is.
C35_ClaimOldestForAgent ==
    \A A \in Agents : \A res \in ClaimOutcomes(messages, A, now) :
        IF PendingFor(A) = {}
        THEN ~res.found /\ res.msgs = messages
        ELSE /\ res.found
             /\ res.row \in PendingFor(A)
             /\ \A q \in PendingFor(A) :
                   messages[res.row].created_at <= messages[q].created_at
             /\ DOMAIN res.msgs = DOMAIN messages
             /\ res.msgs[res.row].status = "processing"
             /\ res.msgs[res.row].claimed_by = A
             /\ \A q \in DOMAIN messages \ {res.row} : res.msgs[q] = messages[q]

\* default has two pending rows of different age, one of them without target,
\* next to a pending row of coder and a row that is not pending any more.
C35_Witness ==
    /\ \E r, q \in PendingFor("default") :
          /\ messages[r].created_at < messages[q].created_at
          /\ messages[r].agent # messages[q].agent
    /\ \E r \in DOMAIN messages : messages[r].status # "pending"
    /\ PendingFor("writer") = {}

\* C36: getPendingAgents and the predicate of claimNextMessage agree: an agent
\* id is listed exactly when claimNextMessage for it would return a row, and
\* every pending row is matched by the claim predicate of exactly one listed
\* id, so a pass over the list can reach every pending row.
C36_PendingAgentsMatchClaims ==
    /\ \A A \in Agents \cup getPendingAgents(messages) :
          A \in getPendingAgents(messages)
             <=> \E res \in ClaimOutcomes(messages, A, now) : res.found
    /\ \A r \in DOMAIN messages :
          messages[r].status = "pending"
             => Cardinality({A \in getPendingAgents(messages) :
                                ClaimMatches(messages[r], A)}) = 1

\* Rows without target, for default and for coder are pending together: two
\* ids are listed for the three rows.
C36_Witness ==
    /\ \E r, q, p \in DOMAIN messages :
          /\ messages[r].status = "pending" /\ messages[r].agent = NULL
          /\ messages[q].status = "pending" /\ messages[q].agent = "default"
          /\ messages[p].status = "pending" /\ messages[p].agent = "coder"
    /\ getPendingAgents(messages) = {"default", "coder"}

\* The responses of channel C that no ackResponse has marked.
Unacked(C) ==
    {r \in DOMAIN responses : responses[r].channel = C /\ responses[r].status # "acked"}

\* C37: from its enqueue until ackResponse is called with its id, a response
\* is in the result of every getResponsesForChannel poll of its own channel
\* and of no other, the result being ordered by creation time; once acked it
\* is in no result again. A response stays unacked and in the table until an
\* ackResponse with its id, and an acked response stays acked.
C37_ResponseDeliveredUntilAck ==
    /\ [](\A C \in PollChannels :
            /\ getResponsesForChannel(responses, C) # {}
            /\ \A res \in getResponsesForChannel(responses, C) :
                  /\ {res[i] : i \in DOMAIN res} = Unacked(C)
                  /\ Len(res) = Cardinality(Unacked(C))
                  /\ \A i, j \in DOMAIN res :
                        i < j => responses[res[i]].created_at
                                    <= responses[res[j]].created_at)
    /\ [][\A r \in DOMAIN responses :
            IF responses[r].status # "acked"
            THEN /\ r \in DOMAIN responses'
                 /\ responses'[r].channel = responses[r].channel
                 /\ \/ responses'[r].status # "acked"
                    \/ responses' = ackResponse(responses, r, now)
            ELSE r \in DOMAIN responses' => responses'[r].status = "acked"]_vars

\* Both channels have something to deliver, one of them two responses of
\* different age, and a response has been acked.
C37_Witness ==
    /\ \E r, q \in Unacked("telegram") : responses[r].created_at < responses[q].created_at
    /\ \E r \in DOMAIN responses :
          responses[r].channel = "telegram" /\ responses[r].status = "acked"

\* The steps of a message answered outside a team, as the message flow lists
\* them, the two events of an external message first.
ExpectedFlow(external) ==
    (IF external THEN <<"message_received", "agent_routed">> ELSE <<>>)
    \o <<"transformIncoming", "chain_step_start", "invokeAgent", "chain_step_done",
         "transformOutgoing", "enqueueResponse", "response_ready", "completeMessage">>

\* The row followed on chain k is no internal follow-up.
External(k) == messages[flow[k].id].conversation_id = NULL

\* The processMessage followed on chain k has completed its row.
Answered(k) ==
    /\ flow[k].pc # "none"
    /\ flow[k].trace[Len(flow[k].trace)] = "completeMessage"

\* C38: a message answered in direct-reply mode goes through message_received,
\* agent_routed, the incoming hooks, chain_step_start, the invocation,
\* chain_step_done, the outgoing hooks and response_ready in this order, its
\* response row being enqueued before its message row is completed; an
\* internal follow-up goes the same way without message_received and
\* agent_routed.
C38_LifecycleOrder ==
    \A k \in ChainKeys :
        flow[k].pc # "none"
        => /\ Len(flow[k].trace) <= Len(ExpectedFlow(External(k)))
           /\ flow[k].trace = SubSeq(ExpectedFlow(External(k)), 1, Len(flow[k].trace))
           /\ Answered(k) => flow[k].trace = ExpectedFlow(External(k))

\* An external message and an internal follow-up have both been answered.
C38_Witness ==
    \E k, j \in ChainKeys :
        /\ Answered(k) /\ External(k)
        /\ Answered(j) /\ ~External(j)

\* C39: a processMessage that finds the reset flag of its agent removes the
\* flag and invokes the agent without the continue switch; one that finds no
\* flag leaves the flags alone and invokes the agent with the switch. So a
\* flag is used up by the invocation of exactly one message.
C39_ResetFlagConsumedOnce ==
    [][\A k \in ChainKeys :
          /\ (run[k].pc = "idle" /\ run'[k].pc = "incoming")
                => LET a == run'[k].agentId
                   IN  /\ flow'[k].shouldReset = (a \in resetFlags)
                       /\ resetFlags' = resetFlags \ {a}
          /\ (run[k].pc = "incoming" /\ run'[k].pc = "invoking")
                => flow'[k].switch = IF flow[k].shouldReset THEN "fresh" ELSE "continue"
          /\ (run[k].pc = "incoming" /\ flow[k].shouldReset)
                => run'[k].pc \in {"incoming", "invoking"}]_vars

\* The hooks of the call that have transformed the text, in load order.
Applied ==
    SelectSeq(hookRun.plugins,
              LAMBDA plugin : HookOf(plugin, hookRun.direction)
                                 \in {"string", "result", "resultCustom"})

\* The keys of the metadata object the hook of the plugin has returned; a
\* hook that returns a string returns none.
ReturnedKeys(plugin) ==
    LET hook == HookOf(plugin, hookRun.direction)
    IN  IF hook = "result" THEN {"parseMode"}
        ELSE IF hook = "resultCustom" THEN {"parseMode", "custom"}
        ELSE {}

\* C40: the pipeline is a left fold in load order: the text it returns is the
\* text given to it after each hook in turn has worked on the output of the
\* one before, and the metadata it returns has the keys of all the metadata
\* objects the hooks returned, each key with the value of the last hook in
\* load order that returned it; a hook that returns a string adds no key.
C40_HookChainIsLeftFold ==
    hookRun.pc = "returned"
    => /\ hookRun.text = [i \in 1..Len(Applied) |-> Applied[i].name]
       /\ DOMAIN hookRun.metadata = UNION {ReturnedKeys(Applied[i]) : i \in 1..Len(Applied)}
       /\ \A key \in DOMAIN hookRun.metadata :
             \E i \in 1..Len(Applied) :
                /\ key \in ReturnedKeys(Applied[i])
                /\ hookRun.metadata[key] = Applied[i].name
                /\ \A j \in (i + 1)..Len(Applied) : key \notin ReturnedKeys(Applied[j])

\* Two hooks have returned metadata with the key parseMode, the first of them
\* with the key custom as well: the pipeline returns the second one's
\* parseMode and the first one's custom.
C40_Witness ==
    /\ hookRun.pc = "returned"
    /\ Len(Applied) = 2
    /\ ReturnedKeys(Applied[1]) = {"parseMode", "custom"}
    /\ ReturnedKeys(Applied[2]) = {"parseMode"}
    /\ hookRun.text = <<1, 2>>
    /\ hookRun.metadata = [parseMode |-> 2, custom |-> 1]

====
